---- MODULE Spec2Model ----
(***************************************************************************)
(* A model of the frame renderer of celestia (src/celengine/render.cpp).   *)
(*                                                                         *)
(* The parts of Renderer that are modelled, each with its own              *)
(* specification over the same variables:                                  *)
(*   SpecDepth    culling, sorting, depth-bucket partitioning and the      *)
(*                render loop of Renderer::render;                         *)
(*   SpecOrbit    the orbit cache: Renderer::render's keep-flag protocol,  *)
(*                renderOrbits and renderOrbit;                            *)
(*   SpecEclipse  Renderer::testEclipse as called by renderPlanet;         *)
(*   SpecList     the render-list builder: renderPlanetarySystem, and      *)
(*                renderStars with StarRenderer::process and the star      *)
(*                vertex buffer;                                           *)
(*   SpecKepler   EllipticalOrbit::positionAtTime (src/celengine/orbit.cpp)*)
(*   SpecEllipsoid the divisions by 1 - oblateness of Renderer::render and *)
(*                renderObject;                                            *)
(*   SpecView     the views of CelestiaCore (src/celestia/celestiacore.cpp)*)
(*                splitView, deleteView, singleView, TAB and pickView;     *)
(*   SpecHistory  the history of CelestiaCore: addToHistory, back, forward *)
(*                and setHistoryCurrent;                                   *)
(*   SpecSky      the tesselation of Renderer::renderEllipsoidAtmosphere.  *)
(*                                                                         *)
(* Numbers.  The code computes in float; the model computes on an integer  *)
(* grid.  Lengths along the view axis are counted in units of              *)
(* MinNearPlaneDistance (0.0001 km), so MinNearPlaneDistance is 1 here.    *)
(* nearZ and farZ keep the code's sign: the camera looks down -z, so both  *)
(* are negative and "nearer" is "greater".                                 *)
(***************************************************************************)
EXTENDS Integers, Sequences, FiniteSets, TLC

VARIABLES
    pc,                 \* position of Renderer::render within the frame
    renderList,         \* vector<RenderListEntry> renderList
    i,                  \* the loop index i of Renderer::render (1-based)
    nDepthBuckets,      \* int nDepthBuckets
    lastNear,           \* float lastNear
    lastFar,            \* float lastFar
    firstCoalesced,     \* int firstCoalesced (1-based)
    depthBucket,        \* int depthBucket of the render loop
    nearPlaneDistance,  \* float nearPlaneDistance
    farPlaneDistance,   \* float farPlaneDistance
    depthRanges,        \* the glDepthRange calls of the frame, in order
    drawn,              \* the entries drawn in the frame, in order
    orbitPathSamplePoints, \* detailOptions.orbitPathSamplePoints
    orbits,             \* the orbits of the bodies: body->getOrbit()
    now,                \* the simulation time of the frame
    orbitCache,         \* vector<CachedOrbit*> orbitCache
    orbitCalls,         \* the bodies renderOrbit was called for in the frame, in order
    samplings,          \* the calls of Orbit::sample made in the frame, in order
    positions,          \* getHeliocentricPosition(now) of every body
    receiver,           \* the body renderPlanet is called for, NULL outside it
    casters,            \* the bodies renderPlanet has still to test as casters
    eclipseShadows,     \* vector<EclipseShadow> eclipseShadows
    eclipseTests,       \* the testEclipse calls of this renderPlanet, in order
    renderPath,         \* context->getRenderPath()
    objectCalls,        \* the renderObject call of this renderPlanet and what it drew
    scene,              \* what the frame is rendered with: observer, magnitudes, flags
    toVisit,            \* the bodies renderPlanetarySystem has still to walk
    visited,            \* the bodies it has looked at in the frame, in order
    starIndex,          \* the star of the database findVisibleStars is at
    nProcessed,         \* StarRenderer::nProcessed
    starVertexBuffer,   \* Renderer::StarVertexBuffer* starVertexBuffer
    addedStars,         \* the addStar calls of the frame, in order
    glareParticles,     \* vector<Particle> glareParticles
    ellipticalOrbit,    \* an EllipticalOrbit: the elements it was constructed with
    positionCalls,      \* the last call of its positionAtTime and what it computed
    ellipsoid,          \* the body CreatePlanet made last: radius, oblateness, ...
    ellipsoidMath,      \* the divisions by 1 - oblateness made for it, in order
    views,              \* vector<View*> views: the view windows, as nodes of viewTree
    activeView,         \* int activeView (0-based, as in the code)
    viewTree,           \* the View objects: windows and splits, by node
    viewFault,          \* views[activeView] was read with activeView out of range
    flashMessage,       \* the last message splitView flashed
    history,            \* vector<Url> history
    historyCurrent,     \* history's size_type historyCurrent (0-based)
    historyPopped,      \* the entries the last addToHistory popped
    skyCalls            \* the last renderEllipsoidAtmosphere call and its tesselation

depthVars == <<renderList, i, nDepthBuckets, lastNear, lastFar, firstCoalesced,
               depthBucket, nearPlaneDistance, farPlaneDistance, depthRanges,
               drawn>>

orbitVars == <<orbitPathSamplePoints, orbits, now, orbitCache, orbitCalls, samplings>>

eclipseVars == <<positions, receiver, casters, eclipseShadows, eclipseTests,
                 renderPath, objectCalls>>

listVars == <<scene, toVisit, visited, starIndex, nProcessed, starVertexBuffer,
              addedStars, glareParticles>>

keplerVars == <<ellipticalOrbit, positionCalls>>

ellipsoidVars == <<ellipsoid, ellipsoidMath>>

viewVars == <<views, activeView, viewTree, viewFault, flashMessage>>

historyVars == <<history, historyCurrent, historyPopped>>

skyVars == <<skyCalls>>

\* the variables of the parts that share nothing with the frame
appVars == <<ellipsoidVars, viewVars, historyVars, skyVars>>

vars == <<pc, depthVars, orbitVars, eclipseVars, listVars, keplerVars, appVars>>

\* what the depth partitioning leaves alone
notDepth == <<orbitVars, eclipseVars, listVars, keplerVars, appVars>>

\* what the orbit cache leaves alone
notOrbit == <<depthVars, eclipseVars, listVars, keplerVars, appVars>>

\* what the eclipse tests leave alone
notEclipse == <<depthVars, orbitVars, listVars, keplerVars, appVars>>

\* what the parts outside the frame leave alone
frameVars == <<pc, depthVars, orbitVars, eclipseVars, listVars, keplerVars>>

notEllipsoid == <<frameVars, viewVars, historyVars, skyVars>>

notView == <<frameVars, ellipsoidVars, historyVars, skyVars>>

notHistory == <<frameVars, ellipsoidVars, viewVars, skyVars>>

notSky == <<frameVars, ellipsoidVars, viewVars, historyVars>>

(***************************************************************************)
(* Bounds of the model.                                                    *)
(***************************************************************************)
\* the largest number of entries the render-list builder puts in renderList
MaxEntries == 3

(***************************************************************************)
(* Program constants.                                                      *)
(***************************************************************************)
\* static const float MinNearPlaneDistance = 0.0001f (km): the unit of length
MinNearPlaneDistance == 1
\* static const float MaxFarNearRatio = 2000.0f
MaxFarNearRatio == 2000
\* lengths of one kilometre, in units of MinNearPlaneDistance
UnitsPerKm == 10000

\* the marker of the model for a depthBucket field that was never written
NoBucket == 0 - 1

Max2(a, b) == IF a >= b THEN a ELSE b
Min2(a, b) == IF a <= b THEN a ELSE b
Abs(a) == IF a < 0 THEN 0 - a ELSE a

\* the integer part of a quotient of integers, rounded toward zero as a C
\* cast rounds
Quot(a, b) == IF (a < 0) = (b < 0) THEN Abs(a) \div Abs(b)
              ELSE 0 - (Abs(a) \div Abs(b))

RECURSIVE SqrtBetween(_, _, _)
SqrtBetween(n, lo, hi) ==
    IF hi - lo <= 1 THEN lo
    ELSE LET mid == (lo + hi) \div 2
         IN  IF mid * mid <= n THEN SqrtBetween(n, mid, hi)
             ELSE SqrtBetween(n, lo, mid)

\* sqrt(n), rounded down to the grid
Sqrt(n) == IF n <= 0 THEN 0 ELSE SqrtBetween(n, 0, 46340)

(***************************************************************************)
(* The render list the builder hands to the culler.                        *)
(*                                                                         *)
(* Every object lies on the view axis: position = (0, 0, z), in front of   *)
(* the camera when z < 0.  An entry carries, next to the fields of         *)
(* RenderListEntry, the properties of its body or star the culler reads.   *)
(***************************************************************************)
Object(kind, z, radius, rings, model, cloudHeight, disc) ==
    [ kind             |-> kind,        \* "body" (star = NULL) or "star" (body = NULL)
      z                |-> z,           \* position.z in the camera's frame
      distance         |-> Abs(z),      \* rle.distance
      radius           |-> radius,      \* rle.radius; the bounding radius too
      rings            |-> rings,       \* getRings()->outerRadius, 0 when NULL
      model            |-> model,       \* getModel() != InvalidResource
      oblateness       |-> 0,           \* getOblateness(), in percent
      atmosphere       |-> 0,           \* getAtmosphere()->height, 0 when NULL
      cloudHeight      |-> cloudHeight, \* getAtmosphere()->cloudHeight
      discSizeInPixels |-> disc,        \* rle.discSizeInPixels
      nearZ            |-> 0,
      farZ             |-> 0,
      depthBucket      |-> NoBucket ]

Catalog ==
    << Object("body", 0 - 40, 10, 0, TRUE, 0, 2),          \* a spacecraft mesh
       Object("body", 0 - 60, 1, 50, FALSE, 0, 2),         \* a small ringed body
       Object("body", 0 - 70, 10, 0, TRUE, 0, 2),          \* a mesh
       Object("body", 0 - 100, 20, 0, TRUE, 0, 2),         \* a mesh
       Object("body", 0 - 160, 40, 0, TRUE, 0, 2),         \* a mesh
       Object("body", 0 - 1250, 750, 0, FALSE, 0, 2),      \* a planet
       Object("body", 0 - 50, 1, 0, FALSE, 0, 1),          \* a moon, one pixel
       Object("body", 0 - 90, 1, 0, FALSE, 0, 0),          \* a moon, sub-pixel
       Object("body", 0 - 828101, 828099, 0, FALSE, 0, 2), \* a planet, seen from 2 units above it
       Object("body", 0 - 6001, 10, 5999, FALSE, 0, 2),    \* wide rings, seen from just outside
       Object("body", 0 - 828100, 828099, 0, FALSE, 2, 2), \* a planet with clouds, seen from below them
       [Object("body", 0 - 1300, 750, 0, FALSE, 0, 2)
            EXCEPT !.oblateness = 20],                     \* an oblate planet
       Object("star", 0 - 3000, 500, 0, FALSE, 0, 2),      \* a nearby star
       Object("body", 30, 1, 0, FALSE, 0, 2) >>            \* a body behind the camera

\* the objects of the catalog numbered in `chosen', in the order of the
\* catalog (the order in which the builder walks the bodies)
RECURSIVE ListOf(_, _)
ListOf(chosen, k) ==
    IF k > Len(Catalog) THEN << >>
    ELSE IF k \in chosen THEN << Catalog[k] >> \o ListOf(chosen, k + 1)
         ELSE ListOf(chosen, k + 1)

\* the render lists the builder can produce: at most MaxEntries objects
BuiltLists ==
    { ListOf(chosen, 1) :
        chosen \in { c \in SUBSET (1..Len(Catalog)) : Cardinality(c) <= MaxEntries } }

(***************************************************************************)
(* Culling (Renderer::render, the loop over renderList before the sort)    *)
(***************************************************************************)
\* cos(degToRad(fov / 2)) * (windowHeight / maxSpan), as a fraction: the
\* window and the field of view are such that it is 1/2
NearScaleNum == 1
NearScaleDen == 2

\* Frustum::testSphere(center, cullRadius) == Frustum::Outside, for a sphere
\* centred on the view axis and a frustum whose near plane is at
\* MinNearPlaneDistance
TestSphereOutside(z, cullRadius) == z - cullRadius > 0 - MinNearPlaneDistance

CullRadiusOf(e) ==
    IF e.kind = "body"
    THEN (IF e.rings # 0 THEN e.rings ELSE e.radius) + e.atmosphere
    ELSE (e.radius * 12) \div 10          \* radius * (1.0f + CoronaHeight)

RadiusOf(e) == IF e.kind = "body" /\ e.rings # 0 THEN e.rings ELSE e.radius

ConvexOf(e) == ~ (e.kind = "body" /\ (e.rings # 0 \/ e.model))

\* iter->nearZ after the clamp to MinNearPlaneDistance
NearZOf(e) ==
    LET nearZ == 0 - Quot((e.distance - RadiusOf(e)) * NearScaleNum, NearScaleDen)
    IN  IF nearZ > 0 - MinNearPlaneDistance THEN 0 - MinNearPlaneDistance
        ELSE nearZ

\* the non-convex branch: farZ at the far side of the bounding sphere, nearZ
\* pulled out so that farZ / nearZ does not exceed MaxFarNearRatio
\* a slip: the near clip left where it is
ClampNonConvexNear_NoClamp(nearZ, farZ) == nearZ

\* (both are negative: farZ / nearZ > ratio iff farZ < nearZ * ratio)
ClampNonConvexNear(nearZ, farZ) ==
    IF farZ < nearZ * MaxFarNearRatio THEN Quot(farZ, MaxFarNearRatio)
    ELSE nearZ

\* the convex branch: the far plane as close as possible
ConvexFarZ(e, nearZ) ==
    LET d       == e.distance
        eradius == (RadiusOf(e) * (100 - (IF e.kind = "body" THEN e.oblateness ELSE 0)))
                       \div 100
        \* square(d) - square(eradius), factored so that it stays in range
        far1    == IF d > eradius
                   THEN 0 - ((Sqrt((d - eradius) * (d + eradius)) * 11) \div 10)
                   ELSE nearZ * 2
        cloudLayerRadius == eradius + e.cloudHeight
    IN  IF e.cloudHeight > 0 /\ d < eradius + e.cloudHeight
        THEN far1 - Sqrt((cloudLayerRadius - eradius) * (cloudLayerRadius + eradius))
        ELSE far1

CullEntry(e) ==
    LET nearZ == NearZOf(e)
    IN  IF ~ ConvexOf(e)
        THEN LET farZ == e.z - RadiusOf(e)
             IN  [e EXCEPT !.farZ = farZ, !.nearZ = ClampNonConvexNear(nearZ, farZ)]
        ELSE [e EXCEPT !.nearZ = nearZ, !.farZ = ConvexFarZ(e, nearZ)]

NotCulled(e) == ~ TestSphereOutside(e.z, CullRadiusOf(e))

RECURSIVE CullList(_)
CullList(list) ==
    IF list = << >> THEN << >>
    ELSE IF NotCulled(Head(list))
         THEN << CullEntry(Head(list)) >> \o CullList(Tail(list))
         ELSE CullList(Tail(list))

(***************************************************************************)
(* operator< of RenderListEntry and stable_sort                            *)
(***************************************************************************)
\* With both objects on the view axis and the observer outside both, the
\* ray to the centre of the smaller one meets the other at distance - radius,
\* or misses it; every branch of operator< then compares distance - radius.
EntryLess(a, b) == a.distance - a.radius < b.distance - b.radius

RECURSIVE InsertSorted(_, _)
InsertSorted(sorted, e) ==
    IF sorted = << >> THEN << e >>
    ELSE IF EntryLess(e, Head(sorted)) THEN << e >> \o sorted
         ELSE << Head(sorted) >> \o InsertSorted(Tail(sorted), e)

RECURSIVE StableSort(_)
StableSort(list) ==
    IF list = << >> THEN << >>
    ELSE InsertSorted(StableSort(SubSeq(list, 1, Len(list) - 1)), list[Len(list)])

(***************************************************************************)
(* Renderer::render: the frame                                             *)
(***************************************************************************)
DepthInit ==
    /\ renderList = << >>
    /\ i = 0
    /\ nDepthBuckets = 1
    /\ lastNear = 0
    /\ lastFar = 0
    /\ firstCoalesced = 1
    /\ depthBucket = 0
    /\ nearPlaneDistance = UnitsPerKm
    /\ farPlaneDistance = 10 * UnitsPerKm
    /\ depthRanges = << >>
    /\ drawn = << >>

\* renderList.clear() at the start of a frame; the locals of the previous
\* frame are gone
ClearRenderList ==
    /\ UNCHANGED notDepth
    /\ pc = "idle"
    /\ pc' = "build"
    /\ renderList' = << >>
    /\ i' = 0
    /\ nDepthBuckets' = 1
    /\ lastNear' = 0
    /\ lastFar' = 0
    /\ firstCoalesced' = 1
    /\ depthBucket' = 0
    /\ nearPlaneDistance' = UnitsPerKm
    /\ farPlaneDistance' = 10 * UnitsPerKm
    /\ depthRanges' = << >>
    /\ drawn' = << >>

\* the builder fills renderList; the culler drops what is outside the view
\* frustum and sets nearZ and farZ; stable_sort orders what is left
CullAndSort ==
    /\ UNCHANGED notDepth
    /\ pc = "build"
    /\ \E list \in BuiltLists : renderList' = StableSort(CullList(list))
    /\ pc' = "partition"
    /\ i' = 1
    /\ UNCHANGED <<nDepthBuckets, lastNear, lastFar, firstCoalesced, depthBucket,
                   nearPlaneDistance, farPlaneDistance, depthRanges, drawn>>

(***************************************************************************)
(* Depth-bucket partitioning: the loop "for (i = 0; i < nEntries; i++)"    *)
(***************************************************************************)
\* "This object doesn't overlap any others in depth": the test that opens a
\* new bucket without an attempt to coalesce
StartsNewBucket(n, nearZ, far) == n = 1 \/ nearZ <= far

\* farthest / nearest < MaxFarNearRatio, for negative nearest
RatioAcceptable(farthest, nearest) == farthest > nearest * MaxFarNearRatio

\* the loop "for (int j = firstCoalesced; j <= i; j++)"
CoalesceEntries(list, first, last, nearest, farthest) ==
    [ j \in 1..Len(list) |->
        IF first <= j /\ j <= last
        THEN [list[j] EXCEPT !.farZ = farthest, !.nearZ = nearest]
        ELSE list[j] ]

\* a slip: the bucket index taken as the bucket count
BucketIndexOf_OffByOne(n) == n

\* renderList[i].depthBucket = nDepthBuckets - 1
BucketIndexOf(n) == n - 1

InPartition == pc = "partition" /\ i <= Len(renderList)

\* an object no larger than a pixel gets no bucket
PartitionSkip ==
    /\ UNCHANGED notDepth
    /\ InPartition
    /\ ~ (renderList[i].discSizeInPixels > 1)
    /\ i' = i + 1
    /\ UNCHANGED <<pc, renderList, nDepthBuckets, lastNear, lastFar, firstCoalesced,
                   depthBucket, nearPlaneDistance, farPlaneDistance, depthRanges,
                   drawn>>

\* opens a bucket for renderList[i]
NewBucket ==
    /\ UNCHANGED notDepth
    /\ nDepthBuckets' = nDepthBuckets + 1
    /\ firstCoalesced' = i
    /\ lastNear' = renderList[i].nearZ
    /\ lastFar' = renderList[i].farZ
    /\ renderList' = [renderList EXCEPT ![i].depthBucket = BucketIndexOf(nDepthBuckets')]
    /\ i' = i + 1
    /\ UNCHANGED <<pc, depthBucket, nearPlaneDistance, farPlaneDistance, depthRanges,
                   drawn>>

PartitionNoOverlap ==
    /\ InPartition
    /\ renderList[i].discSizeInPixels > 1
    /\ StartsNewBucket(nDepthBuckets, renderList[i].nearZ, lastFar)
    /\ NewBucket

PartitionCoalesce ==
    /\ UNCHANGED notDepth
    /\ InPartition
    /\ renderList[i].discSizeInPixels > 1
    /\ ~ StartsNewBucket(nDepthBuckets, renderList[i].nearZ, lastFar)
    /\ LET farthest == Min2(lastFar, renderList[i].farZ)
           nearest  == Max2(lastNear, renderList[i].nearZ)
       IN  /\ RatioAcceptable(farthest, nearest)
           /\ renderList' =
                 [CoalesceEntries(renderList, firstCoalesced, i, nearest, farthest)
                     EXCEPT ![i].depthBucket = BucketIndexOf(nDepthBuckets)]
    /\ i' = i + 1
    /\ UNCHANGED <<pc, nDepthBuckets, lastNear, lastFar, firstCoalesced, depthBucket,
                   nearPlaneDistance, farPlaneDistance, depthRanges, drawn>>

PartitionCoalesceFailed ==
    /\ InPartition
    /\ renderList[i].discSizeInPixels > 1
    /\ ~ StartsNewBucket(nDepthBuckets, renderList[i].nearZ, lastFar)
    /\ ~ RatioAcceptable(Min2(lastFar, renderList[i].farZ),
                         Max2(lastNear, renderList[i].nearZ))
    /\ NewBucket

\* a slip: the depth range cut into one slice too few
DepthRangeOf_OneSliceLess(bucket, n) == [lo |-> bucket, hi |-> bucket + 1, den |-> n - 1]

\* a call glDepthRange(bucket * depthRange, (bucket + 1) * depthRange) with
\* depthRange = 1 / nDepthBuckets, kept as the fractions lo/den and hi/den
DepthRangeOf(bucket, n) == [lo |-> bucket, hi |-> bucket + 1, den |-> n]

\* a slip: the render loop set up one bucket beyond the last
PartitionDone_PastLastBucket ==
    /\ UNCHANGED notDepth
    /\ pc = "partition"
    /\ i > Len(renderList)
    /\ pc' = "draw"
    /\ depthBucket' = nDepthBuckets
    /\ i' = Len(renderList)
    /\ depthRanges' = Append(depthRanges, DepthRangeOf(nDepthBuckets, nDepthBuckets))
    /\ nearPlaneDistance' = UnitsPerKm
    /\ farPlaneDistance' = 10 * UnitsPerKm
    /\ UNCHANGED <<renderList, nDepthBuckets, lastNear, lastFar, firstCoalesced, drawn>>

\* the partitioning is complete; the render loop is set up
PartitionDone ==
    /\ UNCHANGED notDepth
    /\ pc = "partition"
    /\ i > Len(renderList)
    /\ pc' = "draw"
    /\ depthBucket' = nDepthBuckets - 1
    /\ i' = Len(renderList)
    /\ depthRanges' = Append(depthRanges, DepthRangeOf(nDepthBuckets - 1, nDepthBuckets))
    /\ nearPlaneDistance' = UnitsPerKm
    /\ farPlaneDistance' = 10 * UnitsPerKm
    /\ UNCHANGED <<renderList, nDepthBuckets, lastNear, lastFar, firstCoalesced, drawn>>

(***************************************************************************)
(* The render loop: "for (i = nEntries - 1; i >= 0; i--)"                  *)
(***************************************************************************)
\* nearPlaneDistance = nearZ * -0.9f, no nearer than MinNearPlaneDistance
NearPlaneOf(nearZ) ==
    LET near == Quot(nearZ * (0 - 9), 10)
    IN  IF near < MinNearPlaneDistance THEN MinNearPlaneDistance ELSE near

\* a slip: the far plane left where farZ puts it
FarPlaneOf_NoCut(farZ, near) == Quot(farZ * (0 - 15), 10)

\* farPlaneDistance = farZ * -1.5f, cut so that far / near does not exceed
\* MaxFarNearRatio
FarPlaneOf(farZ, near) ==
    LET far == Quot(farZ * (0 - 15), 10)
    IN  IF far > near * MaxFarNearRatio THEN near * MaxFarNearRatio ELSE far

\* an entry larger than a pixel is drawn as a mesh in its own depth range and
\* projection; the loop then moves to the next bucket
DrawMesh ==
    /\ UNCHANGED notDepth
    /\ pc = "draw"
    /\ i >= 1
    /\ renderList[i].discSizeInPixels > 1
    /\ nearPlaneDistance' = NearPlaneOf(renderList[i].nearZ)
    /\ farPlaneDistance' = FarPlaneOf(renderList[i].farZ, nearPlaneDistance')
    /\ drawn' = Append(drawn, [entry  |-> i,
                               bucket |-> renderList[i].depthBucket,
                               near   |-> nearPlaneDistance',
                               far    |-> farPlaneDistance'])
    /\ depthBucket' = renderList[i].depthBucket - 1
    /\ depthRanges' = depthRanges
                        \o << DepthRangeOf(renderList[i].depthBucket, nDepthBuckets),
                              DepthRangeOf(depthBucket', nDepthBuckets) >>
    /\ i' = i - 1
    /\ UNCHANGED <<pc, renderList, nDepthBuckets, lastNear, lastFar, firstCoalesced>>

\* an entry no larger than a pixel is drawn as a particle in the depth range
\* and projection that are current
DrawParticle ==
    /\ UNCHANGED notDepth
    /\ pc = "draw"
    /\ i >= 1
    /\ ~ (renderList[i].discSizeInPixels > 1)
    /\ drawn' = Append(drawn, [entry  |-> i,
                               bucket |-> depthBucket,
                               near   |-> nearPlaneDistance,
                               far    |-> farPlaneDistance])
    /\ i' = i - 1
    /\ UNCHANGED <<pc, renderList, nDepthBuckets, lastNear, lastFar, firstCoalesced,
                   depthBucket, nearPlaneDistance, farPlaneDistance, depthRanges>>

\* "reset the depth range": glDepthRange(0, 1)
DrawDone ==
    /\ UNCHANGED notDepth
    /\ pc = "draw"
    /\ i = 0
    /\ pc' = "idle"
    /\ depthRanges' = Append(depthRanges, [lo |-> 0, hi |-> 1, den |-> 1])
    /\ UNCHANGED <<renderList, i, nDepthBuckets, lastNear, lastFar, firstCoalesced,
                   depthBucket, nearPlaneDistance, farPlaneDistance, drawn>>

DepthNext ==
    \/ ClearRenderList
    \/ CullAndSort
    \/ PartitionSkip
    \/ PartitionNoOverlap
    \/ PartitionCoalesce
    \/ PartitionCoalesceFailed
    \/ PartitionDone
    \/ DrawMesh
    \/ DrawParticle
    \/ DrawDone

(***************************************************************************)
(* The orbit cache                                                         *)
(***************************************************************************)
\* the longest simulation time of a frame
MaxTime == 2

\* the largest number of renderOrbit calls renderOrbits makes in one frame
MaxOrbitCalls == 3

\* Body* NULL
NULL == 0

\* the orbits a solar system file can give to the bodies, by body:
\* isPeriodic(), (int) (getPeriod() * 100.0), and the two times of
\* getValidRange().  Body 1 has an elliptical orbit, body 2 a sampled
\* trajectory, body 3 a trajectory whose valid range is a single time.
OrbitsWith(p) ==
    << [periodic |-> TRUE,  period100 |-> 36525, begin |-> 0, end |-> 0],
       [periodic |-> FALSE, period100 |-> p,     begin |-> 0, end |-> p],
       [periodic |-> FALSE, period100 |-> 700,   begin |-> 0, end |-> 0] >>

OrbitTables == { OrbitsWith(p) : p \in {50, 550, 2500} }

Bodies == 1..3

\* the values of OrbitPathSamplePoints a configuration file sets; 100 is
\* the value DetailOptions starts with
SamplePointChoices == {50, 100}

\* the empty trajectory of a CachedOrbit
NoSamples == [body |-> NULL, startTime |-> 0, nSamples |-> 0]

\* what Orbit::sample(startTime, period, nSamples, sampler) appends to an
\* empty trajectory: the samples of that orbit, named by the arguments
SamplesOf(body, startTime, nSamples) ==
    [body |-> body, startTime |-> startTime, nSamples |-> nSamples]

OrbitInit ==
    /\ orbitPathSamplePoints \in SamplePointChoices
    /\ orbits \in OrbitTables
    /\ now = 0
    /\ orbitCache = << >>
    /\ orbitCalls = << >>
    /\ samplings = << >>

\* a slip: the lookup that never finds the body
CachedIndex_NeverFound(cache, body) == 0

\* the first loop of renderOrbit: the index of the first entry of the cache
\* whose body is `body', 0 when there is none
CachedIndex(cache, body) ==
    IF \E k \in 1..Len(cache) : cache[k].body = body
    THEN CHOOSE k \in 1..Len(cache) :
            /\ cache[k].body = body
            /\ \A m \in 1..(k - 1) : cache[m].body # body
    ELSE 0

\* a slip: the clamp left out
SampleCount_NoClamp(body, configured) ==
    IF ~ orbits[body].periodic /\ orbits[body].begin # orbits[body].end
    THEN orbits[body].period100
    ELSE configured

\* nSamples of renderOrbit
SampleCount(body, configured) ==
    IF ~ orbits[body].periodic /\ orbits[body].begin # orbits[body].end
    THEN Max2(Min2(orbits[body].period100, 1000), 100)
    ELSE configured

\* startTime of renderOrbit
StartTime(body, t) ==
    IF ~ orbits[body].periodic /\ orbits[body].begin # orbits[body].end
    THEN orbits[body].begin
    ELSE t

\* a slip: the keep flags left as the previous frame set them
ClearKeepFlags_Forgotten(cache) == cache

\* "Clear the keep flag for all orbits in the cache"
ClearKeepFlags(cache) == [k \in 1..Len(cache) |-> [cache[k] EXCEPT !.keep = FALSE]]

\* "Mark for recycling all unused orbits in the cache"
RecycleUnused(cache) ==
    [k \in 1..Len(cache) |->
        IF ~ cache[k].keep THEN [cache[k] EXCEPT !.body = NULL] ELSE cache[k]]

\* Renderer::render with ShowOrbits set: the keep flags are cleared before
\* renderOrbits is called
OrbitsBegin ==
    /\ pc = "idle"
    /\ pc' = "orbits"
    /\ now' \in 1..MaxTime
    /\ orbitCache' = ClearKeepFlags(orbitCache)
    /\ orbitCalls' = << >>
    /\ samplings' = << >>
    /\ UNCHANGED <<orbitPathSamplePoints, orbits, notOrbit>>

\* renderOrbits reaches a body whose orbit is to be drawn
CallRenderOrbit(body) ==
    /\ pc = "orbits"
    /\ Len(orbitCalls) < MaxOrbitCalls
    /\ orbitCalls' = Append(orbitCalls, body)
    /\ UNCHANGED <<pc, now, orbitPathSamplePoints, orbits, notOrbit>>

\* the entry renderOrbit fills for a body that is not in the cache
SampledEntry(body, t, configured) ==
    [body       |-> body,
     keep       |-> TRUE,
     trajectory |-> SamplesOf(body, StartTime(body, t), SampleCount(body, configured))]

SamplingOf(body, t, configured) ==
    [body      |-> body,
     startTime |-> StartTime(body, t),
     nSamples  |-> SampleCount(body, configured)]

\* a slip: the body is in the cache and is sampled again all the same
RenderOrbitCached_Resampled ==
    \E body \in Bodies :
        /\ CallRenderOrbit(body)
        /\ CachedIndex(orbitCache, body) # 0
        /\ orbitCache' = [orbitCache EXCEPT ![CachedIndex(orbitCache, body)] =
                             SampledEntry(body, now, orbitPathSamplePoints)]
        /\ samplings' = Append(samplings, SamplingOf(body, now, orbitPathSamplePoints))

\* renderOrbit: the body is in the cache
RenderOrbitCached ==
    \E body \in Bodies :
        /\ CallRenderOrbit(body)
        /\ CachedIndex(orbitCache, body) # 0
        /\ orbitCache' = [orbitCache EXCEPT ![CachedIndex(orbitCache, body)].keep = TRUE]
        /\ UNCHANGED samplings

\* a slip: a new entry is allocated although one is marked for recycling
RenderOrbitReuse_Allocates ==
    \E body \in Bodies :
        /\ CallRenderOrbit(body)
        /\ CachedIndex(orbitCache, body) = 0
        /\ CachedIndex(orbitCache, NULL) # 0
        /\ orbitCache' = Append(orbitCache, SampledEntry(body, now, orbitPathSamplePoints))
        /\ samplings' = Append(samplings, SamplingOf(body, now, orbitPathSamplePoints))

\* renderOrbit: the body is not in the cache and an entry marked for
\* recycling is reused
RenderOrbitReuse ==
    \E body \in Bodies :
        /\ CallRenderOrbit(body)
        /\ CachedIndex(orbitCache, body) = 0
        /\ CachedIndex(orbitCache, NULL) # 0
        /\ orbitCache' = [orbitCache EXCEPT ![CachedIndex(orbitCache, NULL)] =
                             SampledEntry(body, now, orbitPathSamplePoints)]
        /\ samplings' = Append(samplings, SamplingOf(body, now, orbitPathSamplePoints))

\* renderOrbit: the body is not in the cache and a new entry is allocated
RenderOrbitNew ==
    \E body \in Bodies :
        /\ CallRenderOrbit(body)
        /\ CachedIndex(orbitCache, body) = 0
        /\ CachedIndex(orbitCache, NULL) = 0
        /\ orbitCache' = Append(orbitCache, SampledEntry(body, now, orbitPathSamplePoints))
        /\ samplings' = Append(samplings, SamplingOf(body, now, orbitPathSamplePoints))

\* renderOrbits has returned: the entries not used in the frame are marked
\* for recycling
OrbitsEnd ==
    /\ pc = "orbits"
    /\ pc' = "idle"
    /\ orbitCache' = RecycleUnused(orbitCache)
    /\ UNCHANGED <<now, orbitPathSamplePoints, orbits, orbitCalls, samplings, notOrbit>>

OrbitNext ==
    \/ OrbitsBegin
    \/ RenderOrbitCached
    \/ RenderOrbitReuse
    \/ RenderOrbitNew
    \/ OrbitsEnd

(***************************************************************************)
(* Eclipse shadows: Renderer::renderPlanet and Renderer::testEclipse       *)
(*                                                                         *)
(* Positions are heliocentric, in the plane of the orbits: the sun is at   *)
(* <<0, 0>>.                                                               *)
(***************************************************************************)
\* sun->getRadius()
SunRadius == 70

\* obj.rings of a body without rings; a body with rings has their
\* innerRadius here
NoRings == 0

\* the planetary system: a planet and its satellites.  primary is the body
\* getSystem()->getPrimaryBody() returns, NULL for the planet; rings and
\* atmosphere are what getRings() and getAtmosphere() give.
System ==
    << [radius |-> 200, invisible |-> FALSE, model |-> FALSE, primary |-> NULL, rings |-> 300,     atmosphere |-> TRUE],
       [radius |-> 1,   invisible |-> FALSE, model |-> FALSE, primary |-> 1,    rings |-> NoRings, atmosphere |-> FALSE],
       [radius |-> 50,  invisible |-> FALSE, model |-> FALSE, primary |-> 1,    rings |-> NoRings, atmosphere |-> FALSE],
       [radius |-> 200, invisible |-> FALSE, model |-> FALSE, primary |-> 1,    rings |-> NoRings, atmosphere |-> FALSE],
       [radius |-> 60,  invisible |-> TRUE,  model |-> FALSE, primary |-> 1,    rings |-> NoRings, atmosphere |-> FALSE],
       [radius |-> 60,  invisible |-> FALSE, model |-> TRUE,  primary |-> 1,    rings |-> NoRings, atmosphere |-> FALSE] >>

SystemBodies == 1..Len(System)

Satellites(planet) == { b \in SystemBodies : System[b].primary = planet }

\* where the planet is
PlanetPosition == <<15000, 0>>

\* where a satellite can be, from the planet: behind it as seen from the
\* sun, in front of it, and behind it off the line to the sun
Offsets == { <<300, 0>>, <<0 - 300, 0>>, <<300, 100>> }

At(offset) == <<PlanetPosition[1] + offset[1], PlanetPosition[2] + offset[2]>>

\* where the bodies can be at the time of a frame: the planet in its place,
\* the Invisible satellite and the one with a model between the sun and the
\* planet, every other satellite at one of the offsets
Placements ==
    { p \in [SystemBodies -> { At(o) : o \in Offsets \cup { <<0, 0>> } }] :
        \A b \in SystemBodies :
            /\ (p[b] = PlanetPosition) <=> (System[b].primary = NULL)
            /\ (System[b].invisible \/ System[b].model) => p[b] = At(<<0 - 300, 0>>) }

\* where the bodies are before the first frame
FirstPlacement ==
    [b \in SystemBodies |->
        IF System[b].primary = NULL THEN PlanetPosition ELSE At(<<0 - 300, 0>>)]

Dot(u, v) == u[1] * v[1] + u[2] * v[2]
Minus(u, v) == <<u[1] - v[1], u[2] - v[2]>>
Length(u) == Sqrt(Dot(u, u))

\* distance(point, Ray(origin, direction)): to the foot of the perpendicular
\* on the ray, or to the origin of the ray when the foot lies behind it
DistanceToRay(point, origin, direction) ==
    LET w == Minus(point, origin)
    IN  IF Dot(w, direction) <= 0 THEN Length(w)
        ELSE LET along == Dot(w, direction) \div Length(direction)
             IN  Sqrt(Dot(w, w) - along * along)

\* a slip: the caster asked to be a hundred times the receiver
CasterQualifies_HundredTimes(rcv, cst) ==
    /\ System[cst].radius >= System[rcv].radius * 100
    /\ ~ System[cst].invisible
    /\ ~ System[cst].model

\* a slip: no caster is too small
CasterQualifies_AnySize(rcv, cst) ==
    /\ ~ System[cst].invisible
    /\ ~ System[cst].model

\* the test that opens testEclipse: the caster is at least a hundredth of
\* the receiver in radius, is not Invisible and has no model
CasterQualifies(rcv, cst) ==
    /\ System[cst].radius * 100 >= System[rcv].radius
    /\ ~ System[cst].invisible
    /\ ~ System[cst].model

\* 1000 * appSunRadius * distToCaster: the part of shadowRadius the size of
\* the sun adds to the radius of the occluder, in thousandths.  In the code
\* shadowRadius = (1 + appSunRadius / appOccluderRadius) * caster radius with
\* appOccluderRadius = caster radius / distToCaster.
SunSpread(pos, rcv, cst) ==
    LET distToSun    == Length(pos[rcv])
        distToCaster == Length(Minus(pos[cst], pos[rcv])) - System[rcv].radius
    IN  (1000 * SunRadius * distToCaster) \div distToSun

\* 1000 * shadowRadius
ShadowRadius(pos, rcv, cst) == 1000 * System[cst].radius + SunSpread(pos, rcv, cst)

\* 1000 * umbraRadius
UmbraRadius(pos, rcv, cst) == 1000 * System[cst].radius - SunSpread(pos, rcv, cst)

\* "dist < R": the receiver reaches into the shadow cylinder of the caster
InShadow(pos, rcv, cst) ==
    1000 * DistanceToRay(pos[rcv], pos[cst], pos[cst])
        < 1000 * System[rcv].radius + ShadowRadius(pos, rcv, cst)

\* the EclipseShadow record testEclipse appends
ShadowOf(pos, rcv, cst) ==
    [origin         |-> Minus(pos[cst], pos[rcv]),
     direction      |-> pos[cst],
     penumbraRadius |-> ShadowRadius(pos, rcv, cst),
     umbraRadius    |-> UmbraRadius(pos, rcv, cst)]

\* the bodies in the order the loop over the system tests them
RECURSIVE InOrder(_, _)
InOrder(set, k) ==
    IF k > Len(System) THEN << >>
    ELSE IF k \in set THEN << k >> \o InOrder(set, k + 1)
         ELSE InOrder(set, k + 1)

\* the casters renderPlanet tests for a body: for a planet every satellite,
\* for a moon the parent planet and then every other satellite of it
CastersOf(body) ==
    IF System[body].primary = NULL
    THEN InOrder(Satellites(body), 1)
    ELSE << System[body].primary >>
             \o InOrder(Satellites(System[body].primary) \ {body}, 1)

\* the values of GLContext::GLRenderPath: the basic path, the paths the
\* switch of renderObject names, and GLPath_Other for every further value
RenderPaths ==
    { "GLPath_Basic", "GLPath_NvCombiner", "GLPath_DOT3_ARBVP",
      "GLPath_NvCombiner_NvVP", "GLPath_NvCombiner_ARBVP", "GLPath_NV30",
      "GLPath_Other" }

\* a slip: the switch without its default
SphereStrategy_NoDefault(path) ==
    CASE path = "GLPath_NV30" -> << "renderSphere_FP_VP" >>
      [] path \in {"GLPath_NvCombiner_ARBVP", "GLPath_NvCombiner_NvVP"}
             -> << "renderSphere_Combiners_VP" >>
      [] path = "GLPath_NvCombiner" -> << "renderSphere_Combiners" >>
      [] path = "GLPath_DOT3_ARBVP" -> << "renderSphere_DOT3_VP" >>
      [] OTHER -> << >>

\* "switch (context->getRenderPath())": the functions called for a lit sphere
SphereStrategy(path) ==
    CASE path = "GLPath_NV30" -> << "renderSphere_FP_VP" >>
      [] path \in {"GLPath_NvCombiner_ARBVP", "GLPath_NvCombiner_NvVP"}
             -> << "renderSphere_Combiners_VP" >>
      [] path = "GLPath_NvCombiner" -> << "renderSphere_Combiners" >>
      [] path = "GLPath_DOT3_ARBVP" -> << "renderSphere_DOT3_VP" >>
      [] OTHER -> << "renderSphereDefault" >>

\* the functions renderObject calls to draw the surface of the body
SurfaceCalls(path, lit, hasModel, found) ==
    IF ~ hasModel
    THEN IF lit THEN SphereStrategy(path) ELSE << "renderSphereDefault" >>
    ELSE IF found THEN << "renderModelDefault" >> ELSE << >>

\* the distances of the observer from the centre of a body that renderPlanet
\* is called with: for the body with rings within their inner radius, on
\* it, and beyond it
ObserverDistances(body) ==
    IF System[body].rings # NoRings THEN {250, 300, 400} ELSE {400}

\* a slip: the rings an observer beyond their inner radius sees are left out
ObjectPasses_NoFarRings(path, lit, hasModel, found, rings, distance, atmosphere, shadows) ==
    SurfaceCalls(path, lit, hasModel, found)
        \o (IF rings # NoRings /\ distance <= rings THEN << "renderRings" >> ELSE << >>)
        \o (IF atmosphere THEN << "renderEllipsoidAtmosphere" >> ELSE << >>)
        \o (IF shadows /\ lit THEN << "renderEclipseShadows" >> ELSE << >>)

\* the drawing functions renderObject calls, in the order of the calls: the
\* surface, the rings when the observer is within their inner radius, the
\* atmosphere (atmosphere: the body has one and it is not faded out), the
\* eclipse shadows (shadows: rp.eclipseShadows is set) of a surface that is
\* not emissive, the rings when the observer is beyond their inner radius
ObjectPasses(path, lit, hasModel, found, rings, distance, atmosphere, shadows) ==
    SurfaceCalls(path, lit, hasModel, found)
        \o (IF rings # NoRings /\ distance <= rings THEN << "renderRings" >> ELSE << >>)
        \o (IF atmosphere THEN << "renderEllipsoidAtmosphere" >> ELSE << >>)
        \o (IF shadows /\ lit THEN << "renderEclipseShadows" >> ELSE << >>)
        \o (IF rings # NoRings /\ distance > rings THEN << "renderRings" >> ELSE << >>)

EclipseInit ==
    /\ positions = FirstPlacement
    /\ receiver = NULL
    /\ casters = << >>
    /\ eclipseShadows = << >>
    /\ eclipseTests = << >>
    /\ renderPath \in RenderPaths
    /\ objectCalls = << >>

\* a slip: the list of eclipse shadows is not cleared
RenderPlanetBegin_NoClear ==
    /\ pc = "idle"
    /\ \E body \in SystemBodies :
          /\ ~ System[body].invisible
          /\ receiver' = body
          /\ casters' = CastersOf(body)
    /\ positions' \in Placements
    /\ eclipseShadows' = eclipseShadows
    /\ eclipseTests' = << >>
    /\ objectCalls' = << >>
    /\ pc' = "eclipse"
    /\ UNCHANGED <<renderPath, notEclipse>>

\* renderPlanet with ShowEclipseShadows set, for a body that is not
\* Invisible: the list of eclipse shadows is cleared
RenderPlanetBegin ==
    /\ pc = "idle"
    /\ \E body \in SystemBodies :
          /\ ~ System[body].invisible
          /\ receiver' = body
          /\ casters' = CastersOf(body)
    /\ positions' \in Placements
    /\ eclipseShadows' = << >>
    /\ eclipseTests' = << >>
    /\ objectCalls' = << >>
    /\ pc' = "eclipse"
    /\ UNCHANGED <<renderPath, notEclipse>>

\* a call testEclipse(receiver, caster, now) and what it returns
TestEclipseCall(result) ==
    /\ pc = "eclipse"
    /\ casters # << >>
    /\ casters' = Tail(casters)
    /\ eclipseTests' = Append(eclipseTests,
                              [receiver |-> receiver, caster |-> Head(casters),
                               result |-> result])
    /\ UNCHANGED <<pc, positions, receiver, renderPath, objectCalls, notEclipse>>

\* testEclipse: the caster does not qualify
TestEclipseSkipped ==
    /\ TestEclipseCall(FALSE)
    /\ ~ CasterQualifies(receiver, Head(casters))
    /\ UNCHANGED eclipseShadows

\* testEclipse: the receiver is outside the shadow of the caster
TestEclipseMissed ==
    /\ TestEclipseCall(FALSE)
    /\ CasterQualifies(receiver, Head(casters))
    /\ ~ InShadow(positions, receiver, Head(casters))
    /\ UNCHANGED eclipseShadows

\* a slip: the call returns true and the record is not appended
TestEclipseShadowed_NoRecord ==
    /\ TestEclipseCall(TRUE)
    /\ CasterQualifies(receiver, Head(casters))
    /\ InShadow(positions, receiver, Head(casters))
    /\ UNCHANGED eclipseShadows

\* testEclipse: a shadow falls on the receiver
TestEclipseShadowed ==
    /\ TestEclipseCall(TRUE)
    /\ CasterQualifies(receiver, Head(casters))
    /\ InShadow(positions, receiver, Head(casters))
    /\ eclipseShadows' = Append(eclipseShadows,
                                ShadowOf(positions, receiver, Head(casters)))

\* every caster is tested: renderObject draws the body with the shadows.
\* emissive: the surface of the body has the flag Surface::Emissive; found:
\* the model manager finds the model of the body; faded: the atmosphere is
\* too thin on the screen to be drawn; rp.eclipseShadows is set when the
\* list of shadows is not empty.
RenderPlanetEnd ==
    /\ pc = "eclipse"
    /\ casters = << >>
    /\ pc' = "idle"
    /\ receiver' = NULL
    /\ \E emissive \in BOOLEAN :
       \E found \in (IF System[receiver].model THEN BOOLEAN ELSE {TRUE}) :
       \E faded \in (IF System[receiver].atmosphere THEN BOOLEAN ELSE {TRUE}) :
       \E distance \in ObserverDistances(receiver) :
          objectCalls' =
              << [ body     |-> receiver,
                   path     |-> renderPath,
                   lit      |-> ~ emissive,
                   sphere   |-> ~ System[receiver].model,
                   rings    |-> System[receiver].rings,
                   distance |-> distance,
                   shadows  |-> eclipseShadows,
                   calls    |-> SurfaceCalls(renderPath, ~ emissive,
                                             System[receiver].model, found),
                   passes   |-> ObjectPasses(renderPath, ~ emissive,
                                             System[receiver].model, found,
                                             System[receiver].rings, distance,
                                             System[receiver].atmosphere /\ ~ faded,
                                             eclipseShadows # << >>) ] >>
    /\ UNCHANGED <<positions, casters, eclipseShadows, eclipseTests, renderPath,
                   notEclipse>>

EclipseNext ==
    \/ RenderPlanetBegin
    \/ TestEclipseSkipped
    \/ TestEclipseMissed
    \/ TestEclipseShadowed
    \/ RenderPlanetEnd

(***************************************************************************)
(* The render-list builder: Renderer::renderPlanetarySystem                *)
(*                                                                         *)
(* Radii are in km, the distance of the observer from the bodies in        *)
(* thousands of km, pixelSize in millionths of a radian, disc sizes in     *)
(* hundredths of a pixel, magnitudes in tenths.                            *)
(***************************************************************************)
\* the largest capacity of the star vertex buffer
MaxCapacity == 3

\* the scenes of a frame.  far: the observer is 100,000,000 km from the
\* bodies instead of 1,000,000 km.
Scenes ==
    [ far            : BOOLEAN,
      pixelSize      : {1},
      faintestMag    : {20, 60},
      saturationMag  : {0},
      brightnessBias : {0, 200},             \* in thousandths
      starStyle      : {"FuzzyPointStars", "PointStars", "ScaledDiscStars"},
      showCometTails : BOOLEAN ]

\* the scene before the first frame: the settings Renderer::Renderer makes
FirstScene ==
    [ far |-> TRUE, pixelSize |-> 1, faintestMag |-> 60, saturationMag |-> 0,
      brightnessBias |-> 0, starStyle |-> "FuzzyPointStars", showCometTails |-> FALSE ]

DistanceOf(sc) == IF sc.far THEN 100000 ELSE 1000

\* the bodies of the solar system.  appMag: what getApparentMagnitude
\* returns for the body in the near and in the far scene; system: the body
\* whose satellites the body is one of, NULL for the planets of the star.
SolarBodies ==
    << [radius |-> 6371,  class |-> "Planet",     extant |-> TRUE,  appMag |-> <<0 - 100, 0>>, system |-> NULL],
       [radius |-> 1737,  class |-> "Moon",       extant |-> TRUE,  appMag |-> <<0 - 50, 50>>, system |-> 1],
       [radius |-> 20000, class |-> "Invisible",  extant |-> TRUE,  appMag |-> <<0 - 20, 10>>, system |-> NULL],
       [radius |-> 10,    class |-> "Moon",       extant |-> TRUE,  appMag |-> <<40, 140>>,    system |-> 3],
       [radius |-> 5,     class |-> "Comet",      extant |-> TRUE,  appMag |-> <<90, 190>>,    system |-> NULL],
       [radius |-> 1,     class |-> "Spacecraft", extant |-> FALSE, appMag |-> <<0 - 10, 0>>,  system |-> NULL],
       [radius |-> 1,     class |-> "Asteroid",   extant |-> TRUE,  appMag |-> <<30, 130>>,    system |-> NULL],
       [radius |-> 2000,  class |-> "Moon",       extant |-> TRUE,  appMag |-> <<0 - 30, 0>>,  system |-> 7],
       [radius |-> 100,   class |-> "Moon",       extant |-> TRUE,  appMag |-> <<0 - 40, 10>>, system |-> 2] >>

\* the bodies of the system of `primary', in the order getBody(i) gives them
RECURSIVE SystemOf(_, _)
SystemOf(primary, k) ==
    IF k > Len(SolarBodies) THEN << >>
    ELSE IF SolarBodies[k].system = primary THEN << k >> \o SystemOf(primary, k + 1)
         ELSE SystemOf(primary, k + 1)

AppMagOf(body, sc) == SolarBodies[body].appMag[IF sc.far THEN 2 ELSE 1]

\* (radius / distance) / pixelSize, in hundredths of a pixel
DiscSizeOf(radius, distance, pixelSize) ==
    LET angle == (radius \div distance) * 1000 + ((radius % distance) * 1000) \div distance
    IN  (angle * 100) \div pixelSize

\* float radius = 10000000.0f: the radius a comet's tail is given
CometTailRadius == 10000000

\* a slip: the classification of the body is not looked at
BodyListed_InvisibleToo(disc, appMag, class, faintestPlanetMag) ==
    disc > 100 \/ appMag < faintestPlanetMag

\* the test that puts a body in the render list
BodyListed(disc, appMag, class, faintestPlanetMag) ==
    /\ disc > 100 \/ appMag < faintestPlanetMag
    /\ class # "Invisible"

\* the RenderListEntry of a body
BodyEntry(body, sc) ==
    [ body |-> body, star |-> NULL, isCometTail |-> FALSE,
      distance |-> DistanceOf(sc), radius |-> SolarBodies[body].radius,
      discSizeInPixels |-> DiscSizeOf(SolarBodies[body].radius, DistanceOf(sc), sc.pixelSize),
      appMag |-> AppMagOf(body, sc) ]

\* the RenderListEntry of the tail of a comet
CometTailEntry(body, sc) ==
    [ body |-> body, star |-> NULL, isCometTail |-> TRUE,
      distance |-> DistanceOf(sc), radius |-> CometTailRadius,
      discSizeInPixels |-> DiscSizeOf(CometTailRadius, DistanceOf(sc), sc.pixelSize),
      appMag |-> AppMagOf(body, sc) ]

\* what one pass of the loop of renderPlanetarySystem appends for a body
\* that is extant
EntriesOf(body, sc) ==
    LET e == BodyEntry(body, sc)
        t == CometTailEntry(body, sc)
    IN  (IF BodyListed(e.discSizeInPixels, e.appMag, SolarBodies[body].class, sc.faintestMag)
         THEN << e >> ELSE << >>)
        \o (IF SolarBodies[body].class = "Comet" /\ sc.showCometTails
                  /\ t.discSizeInPixels > 100
            THEN << t >> ELSE << >>)

\* a slip: the satellites are visited whatever the magnitude of the body
SatellitesVisited_Always(body, sc) == SystemOf(body, 1)

\* the bodies the recursive call at the end of a pass of the loop visits:
\* the satellites of the body when appMag < faintestPlanetMag, none otherwise
SatellitesVisited(body, sc) ==
    IF AppMagOf(body, sc) < sc.faintestMag THEN SystemOf(body, 1) ELSE << >>

\* what the builder leaves alone: everything of the other parts but the
\* render list
notList == <<i, nDepthBuckets, lastNear, lastFar, firstCoalesced, depthBucket,
             nearPlaneDistance, farPlaneDistance, depthRanges, drawn,
             orbitVars, eclipseVars, keplerVars, appVars>>

\* Renderer::render: renderList.clear(), faintestPlanetMag = faintestMag, and
\* the call of renderPlanetarySystem for the planets of the nearest star
BuildBegin ==
    /\ pc = "idle"
    /\ pc' = "bodies"
    /\ scene' \in Scenes
    /\ renderList' = << >>
    /\ toVisit' = SystemOf(NULL, 1)
    /\ visited' = << >>
    /\ addedStars' = << >>
    /\ starVertexBuffer' = [starVertexBuffer EXCEPT !.draws = << >>]
    /\ UNCHANGED <<starIndex, nProcessed, glareParticles, notList>>

\* "if (!body->extant(now)) continue"
VisitBodyGone ==
    /\ pc = "bodies"
    /\ toVisit # << >>
    /\ ~ SolarBodies[Head(toVisit)].extant
    /\ toVisit' = Tail(toVisit)
    /\ UNCHANGED <<pc, scene, renderList, visited, starIndex, nProcessed,
                   starVertexBuffer, addedStars, glareParticles, notList>>

\* one pass of the loop for a body that is extant: the entries are appended
\* and, when the body is bright enough, renderPlanetarySystem is called for
\* its satellites before the loop goes on
VisitBody ==
    /\ pc = "bodies"
    /\ toVisit # << >>
    /\ LET body == Head(toVisit)
       IN  /\ SolarBodies[body].extant
           /\ renderList' = renderList \o EntriesOf(body, scene)
           /\ visited' = Append(visited, body)
           /\ toVisit' = SatellitesVisited(body, scene) \o Tail(toVisit)
    /\ UNCHANGED <<pc, scene, starIndex, nProcessed, starVertexBuffer, addedStars,
                   glareParticles, notList>>

(***************************************************************************)
(* Stars: Renderer::renderStars, StarRenderer::process and the star vertex *)
(* buffer.  Distances of stars are in thousandths of a light year, alpha   *)
(* and the factor of the size of a billboard in thousandths.               *)
(***************************************************************************)
\* distanceLimit(1.0e6f), in thousandths of a light year
DistanceLimit == 1000000000

\* astro::lightYearsToKilometers(0.001), in millions of km
GmPerMilliLightYear == 9461

\* MaxScaledDiscStarSize = 8.0f, in thousandths
MaxScaledDiscStarSize == 8000

\* the stars of the database, in the order findVisibleStars walks them.
\* appMag: the magnitude process is called with; nearAppMag: what
\* astro::absToAppMag gives with the distance computed again for a star less
\* than a light year away; inFront: relPos * viewNormal > 0 or
\* relPos.x * relPos.x < 0.1f.
StarCatalog ==
    << [distance |-> 2000000000, appMag |-> 0 - 20, nearAppMag |-> 0 - 20, inFront |-> TRUE,  radius |-> 696000],
       [distance |-> 10000,      appMag |-> 35,     nearAppMag |-> 35,     inFront |-> TRUE,  radius |-> 696000],
       [distance |-> 8600,       appMag |-> 65,     nearAppMag |-> 65,     inFront |-> TRUE,  radius |-> 1190000],
       [distance |-> 300000,     appMag |-> 50,     nearAppMag |-> 50,     inFront |-> TRUE,  radius |-> 696000],
       [distance |-> 4400,       appMag |-> 0,      nearAppMag |-> 0,      inFront |-> FALSE, radius |-> 850000],
       [distance |-> 1,          appMag |-> 0 - 120, nearAppMag |-> 0 - 121, inFront |-> TRUE, radius |-> 696000],
       [distance |-> 500,        appMag |-> 0 - 80, nearAppMag |-> 0 - 79, inFront |-> TRUE,  radius |-> 696000],
       [distance |-> 30000,      appMag |-> 12,     nearAppMag |-> 12,     inFront |-> TRUE,  radius |-> 2000000] >>

\* "if (distance < 1.0f)": the star is less than a light year away
NearStar(star) == StarCatalog[star].distance < 1000

\* appMag as process uses it after the special handling of near stars
StarAppMag(star) ==
    IF NearStar(star) THEN StarCatalog[star].nearAppMag ELSE StarCatalog[star].appMag

\* discSizeInPixels of a star, in hundredths of a pixel: 0 unless the star
\* is near, radius / lightYearsToKilometers(distance) / pixelSize if it is
StarDiscSize(star, sc) ==
    IF NearStar(star)
    THEN ((StarCatalog[star].radius * 100)
              \div (StarCatalog[star].distance * GmPerMilliLightYear)) \div sc.pixelSize
    ELSE 0

\* 1 / brightnessScale of Renderer::render: faintestMag - saturationMag, and
\* no less than four magnitudes
BrightnessRange(sc) ==
    IF sc.faintestMag - sc.saturationMag >= 40
    THEN sc.faintestMag - sc.saturationMag ELSE 40

\* clamp(x): x kept within 0..1
Clamp(x) == IF x < 0 THEN 0 ELSE IF x > 1000 THEN 1000 ELSE x

\* a slip: the difference of the magnitudes taken the other way round
RawAlpha_Reversed(appMag, sc) ==
    Quot((appMag - sc.faintestMag) * 1120
             * (IF sc.starStyle = "ScaledDiscStars" THEN 2 ELSE 1),
         BrightnessRange(sc)) + sc.brightnessBias

\* (faintestMag - appMag) * brightnessScale + brightnessBias, where the
\* brightnessScale of the StarRenderer is that of the Renderer times corrFac
\* (1.12), and twice that for scaled discs
RawAlpha(appMag, sc) ==
    Quot((sc.faintestMag - appMag) * 1120
             * (IF sc.starStyle = "ScaledDiscStars" THEN 2 ELSE 1),
         BrightnessRange(sc)) + sc.brightnessBias

\* the arguments of the addStar call for a star: the alpha of the colour and
\* the size as a factor of StarRenderer::size
Billboard(star, sc) ==
    LET alpha == RawAlpha(StarAppMag(star), sc)
    IN  [ star   |-> star,
          appMag |-> StarAppMag(star),
          alpha  |-> Clamp(alpha),
          size   |-> IF sc.starStyle = "ScaledDiscStars" /\ alpha > 1000
                     THEN Min2(2 * alpha - 1000, MaxScaledDiscStarSize)
                     ELSE 1000 ]

\* the glare particle of a star brighter than the saturation magnitude
GlareOf(star, sc) ==
    [ star  |-> star,
      alpha |-> (4 * Clamp((sc.saturationMag - StarAppMag(star)) * 80)) \div 10 ]

\* a slip: the entry of a star without its star
StarEntry_NoReference(star, sc) ==
    [ body |-> NULL, star |-> NULL, isCometTail |-> FALSE,
      distance |-> StarCatalog[star].distance * GmPerMilliLightYear * 1000,
      radius |-> StarCatalog[star].radius,
      discSizeInPixels |-> StarDiscSize(star, sc),
      appMag |-> StarAppMag(star) ]

\* the RenderListEntry of a star promoted to the render list
StarEntry(star, sc) ==
    [ body |-> NULL, star |-> star, isCometTail |-> FALSE,
      distance |-> StarCatalog[star].distance * GmPerMilliLightYear * 1000,
      radius |-> StarCatalog[star].radius,
      discSizeInPixels |-> StarDiscSize(star, sc),
      appMag |-> StarAppMag(star) ]

\* StarVertexBuffer(capacity).  stored: the stars in the first nStars places
\* of the arrays; draws: the glDrawArrays calls made since start(), each
\* with the stars it draws.
NewStarVertexBuffer(capacity) ==
    [ capacity |-> capacity, nStars |-> 0, stored |-> << >>, draws |-> << >>,
      usePoints |-> FALSE ]

\* StarVertexBuffer::start
StartBuffer(buffer, usePoints) ==
    [buffer EXCEPT !.usePoints = usePoints, !.draws = << >>]

\* StarVertexBuffer::render
RenderBuffer(buffer) ==
    IF buffer.nStars # 0
    THEN [buffer EXCEPT !.draws = Append(@, buffer.stored),
                        !.nStars = 0, !.stored = << >>]
    ELSE buffer

\* a slip: the full buffer is not drawn before the next star comes
AddStar_NoFlush(buffer, billboard) ==
    IF buffer.nStars < buffer.capacity
    THEN [buffer EXCEPT !.nStars = @ + 1, !.stored = Append(@, billboard)]
    ELSE [RenderBuffer(buffer) EXCEPT !.nStars = 0]

\* StarVertexBuffer::addStar
AddStar(buffer, billboard) ==
    LET kept == IF buffer.nStars < buffer.capacity
                THEN [buffer EXCEPT !.nStars = @ + 1, !.stored = Append(@, billboard)]
                ELSE buffer
    IN  IF kept.nStars = kept.capacity
        THEN [RenderBuffer(kept) EXCEPT !.nStars = 0]
        ELSE kept

\* StarVertexBuffer::finish
FinishBuffer(buffer) == RenderBuffer(buffer)

ListInit ==
    /\ scene = FirstScene
    /\ toVisit = << >>
    /\ visited = << >>
    /\ starIndex = 0
    /\ nProcessed = 0
    /\ starVertexBuffer \in { NewStarVertexBuffer(c) : c \in 1..MaxCapacity }
    /\ addedStars = << >>
    /\ glareParticles = << >>

\* renderStars: the walk of the bodies is over; glareParticles.clear() and
\* starVertexBuffer->start(starStyle == PointStars)
RenderStarsBegin ==
    /\ pc = "bodies"
    /\ toVisit = << >>
    /\ pc' = "stars"
    /\ glareParticles' = << >>
    /\ addedStars' = << >>
    /\ starVertexBuffer' = StartBuffer(starVertexBuffer, scene.starStyle = "PointStars")
    /\ starIndex' = 1
    /\ nProcessed' = 0
    /\ UNCHANGED <<scene, renderList, toVisit, visited, notList>>

InStars == pc = "stars" /\ starIndex <= Len(StarCatalog)

\* findVisibleStars passes over a star without calling process for it
StarPassedOver ==
    /\ InStars
    /\ starIndex' = starIndex + 1
    /\ UNCHANGED <<pc, scene, renderList, toVisit, visited, nProcessed,
                   starVertexBuffer, addedStars, glareParticles, notList>>

\* process goes on: the star is within distanceLimit and in front of the
\* observer
Processed(star) ==
    /\ StarCatalog[star].distance <= DistanceLimit
    /\ StarCatalog[star].inFront

\* process returns at once
ProcessStarRejected ==
    /\ InStars
    /\ ~ Processed(starIndex)
    /\ nProcessed' = nProcessed + 1
    /\ starIndex' = starIndex + 1
    /\ UNCHANGED <<pc, scene, renderList, toVisit, visited, starVertexBuffer,
                   addedStars, glareParticles, notList>>

\* process: the star is no larger than a pixel; it goes to the vertex
\* buffer, with a glare particle if it is brighter than saturationMag
ProcessStarBillboard ==
    /\ InStars
    /\ Processed(starIndex)
    /\ StarDiscSize(starIndex, scene) <= 100
    /\ starVertexBuffer' = AddStar(starVertexBuffer, Billboard(starIndex, scene))
    /\ addedStars' = Append(addedStars, Billboard(starIndex, scene))
    /\ glareParticles' = IF StarAppMag(starIndex) < scene.saturationMag
                         THEN Append(glareParticles, GlareOf(starIndex, scene))
                         ELSE glareParticles
    /\ nProcessed' = nProcessed + 1
    /\ starIndex' = starIndex + 1
    /\ UNCHANGED <<pc, scene, renderList, toVisit, visited, notList>>

\* a slip: the star goes to the render list and to the vertex buffer too
ProcessStarPromoted_AlsoBuffered ==
    /\ InStars
    /\ Processed(starIndex)
    /\ StarDiscSize(starIndex, scene) > 100
    /\ renderList' = Append(renderList, StarEntry(starIndex, scene))
    /\ starVertexBuffer' = AddStar(starVertexBuffer, Billboard(starIndex, scene))
    /\ addedStars' = Append(addedStars, Billboard(starIndex, scene))
    /\ nProcessed' = nProcessed + 1
    /\ starIndex' = starIndex + 1
    /\ UNCHANGED <<pc, scene, toVisit, visited, glareParticles, notList>>

\* process: the star is larger than a pixel; it goes to the render list
ProcessStarPromoted ==
    /\ InStars
    /\ Processed(starIndex)
    /\ StarDiscSize(starIndex, scene) > 100
    /\ renderList' = Append(renderList, StarEntry(starIndex, scene))
    /\ nProcessed' = nProcessed + 1
    /\ starIndex' = starIndex + 1
    /\ UNCHANGED <<pc, scene, toVisit, visited, starVertexBuffer, addedStars,
                   glareParticles, notList>>

\* findVisibleStars has returned: starVertexBuffer->finish()
RenderStarsEnd ==
    /\ pc = "stars"
    /\ starIndex > Len(StarCatalog)
    /\ pc' = "idle"
    /\ starVertexBuffer' = FinishBuffer(starVertexBuffer)
    /\ UNCHANGED <<scene, renderList, toVisit, visited, starIndex, nProcessed,
                   addedStars, glareParticles, notList>>

ListNext ==
    \/ BuildBegin
    \/ VisitBodyGone
    \/ VisitBody
    \/ RenderStarsBegin
    \/ StarPassedOver
    \/ ProcessStarRejected
    \/ ProcessStarBillboard
    \/ ProcessStarPromoted
    \/ RenderStarsEnd

(***************************************************************************)
(* EllipticalOrbit::positionAtTime                                         *)
(*                                                                         *)
(* Angles are in whole degrees, sines and cosines in thousandths, the      *)
(* eccentricity in hundredths, times in days.  The position is kept in the *)
(* plane of the orbit, as x and z are before the rotation R is applied.    *)
(***************************************************************************)
\* the latest time positionAtTime is called with
MaxOrbitTime == 3

\* sin of an angle in degrees, in thousandths, on the grid
SinDeg(angle) ==
    LET a == angle % 360
        h == IF a <= 180 THEN a ELSE a - 180
        v == (4000 * h * (180 - h)) \div (40500 - h * (180 - h))
    IN  IF a <= 180 THEN v ELSE 0 - v

CosDeg(angle) == SinDeg(angle + 90)

\* the orbits a solar system file can give
EllipticalOrbits ==
    [ semiMajorAxis      : {1000, 5000},
      eccentricity       : {0, 10, 50, 99},
      meanAnomalyAtEpoch : {0, 30, 90},
      period             : {4, 360},
      epoch              : {0} ]

FirstEllipticalOrbit ==
    [ semiMajorAxis |-> 1000, eccentricity |-> 0, meanAnomalyAtEpoch |-> 0,
      period |-> 360, epoch |-> 0 ]

\* SolveKeplerFunc1::operator(): M + ecc * sin(x)
SolveKeplerFunc1(ecc, M, x) == M + Quot(ecc * SinDeg(x) * 573, 1000000)

\* SolveKeplerFunc2::operator(): x + (M + ecc * sin(x) - x) / (1 - ecc * cos(x))
SolveKeplerFunc2(ecc, M, x) ==
    x + Quot((M + Quot(ecc * SinDeg(x) * 573, 1000000) - x) * 1000,
             1000 - Quot(ecc * 10 * CosDeg(x), 1000))

\* solve_iteration_fixed(f, x0, maxIter).first: f applied maxIter times
RECURSIVE IterateFunc1(_, _, _, _)
IterateFunc1(ecc, M, x, n) ==
    IF n = 0 THEN x ELSE IterateFunc1(ecc, M, SolveKeplerFunc1(ecc, M, x), n - 1)

RECURSIVE IterateFunc2(_, _, _, _)
IterateFunc2(ecc, M, x, n) ==
    IF n = 0 THEN x ELSE IterateFunc2(ecc, M, SolveKeplerFunc2(ecc, M, x), n - 1)

\* meanAnomalyAtEpoch + t * meanMotion, with meanMotion = 2 PI / period
MeanAnomaly(orbit, t) ==
    orbit.meanAnomalyAtEpoch + Quot((t - orbit.epoch) * 360, orbit.period)

\* a slip: the circular orbit goes through the iteration like the others
EccAnomaly_NoCircularCase(orbit, M) ==
    IF orbit.eccentricity < 20
    THEN [value |-> IterateFunc1(orbit.eccentricity, M, M, 5), iterations |-> 5]
    ELSE IF orbit.eccentricity < 98
    THEN [value |-> IterateFunc2(orbit.eccentricity, M, M, 6), iterations |-> 6]
    ELSE [value |-> M, iterations |-> 0]

\* "Compute the eccentric anomaly from the mean anomaly": the value, and
\* the number of steps of iteration that were run for it
EccAnomaly(orbit, M) ==
    IF orbit.eccentricity = 0
    THEN [value |-> M, iterations |-> 0]
    ELSE IF orbit.eccentricity < 20
    THEN [value |-> IterateFunc1(orbit.eccentricity, M, M, 5), iterations |-> 5]
    ELSE IF orbit.eccentricity < 98
    THEN [value |-> IterateFunc2(orbit.eccentricity, M, M, 6), iterations |-> 6]
    ELSE [value |-> M, iterations |-> 0]

\* x = semiMajorAxis * (cos(eccAnomaly) - eccentricity)
PlaneX(orbit, E) ==
    Quot(orbit.semiMajorAxis * (CosDeg(E) - orbit.eccentricity * 10), 1000)

\* z = semiMajorAxis * sqrt(1 - square(eccentricity)) * -sin(eccAnomaly)
PlaneZ(orbit, E) ==
    Quot(Quot(orbit.semiMajorAxis
                  * Sqrt(1000000 - 100 * orbit.eccentricity * orbit.eccentricity),
              1000) * (0 - SinDeg(E)),
         1000)

KeplerInit ==
    /\ ellipticalOrbit \in EllipticalOrbits
    /\ positionCalls = << >>

\* a call positionAtTime(t)
PositionAtTime(t) ==
    LET M == MeanAnomaly(ellipticalOrbit, t)
        E == EccAnomaly(ellipticalOrbit, M)
    IN  /\ positionCalls' =
              << [ t           |-> t,
                   meanAnomaly |-> M,
                   eccAnomaly  |-> E.value,
                   iterations  |-> E.iterations,
                   x           |-> PlaneX(ellipticalOrbit, E.value),
                   z           |-> PlaneZ(ellipticalOrbit, E.value) ] >>
        /\ UNCHANGED <<pc, ellipticalOrbit, depthVars, orbitVars, eclipseVars, listVars,
                       appVars>>

\* the orbit is circular
PositionCircular ==
    /\ ellipticalOrbit.eccentricity = 0
    /\ \E t \in 0..MaxOrbitTime : PositionAtTime(t)

\* "Low eccentricity, so use the standard iteration technique"
PositionLowEccentricity ==
    /\ ellipticalOrbit.eccentricity # 0
    /\ ellipticalOrbit.eccentricity < 20
    /\ \E t \in 0..MaxOrbitTime : PositionAtTime(t)

\* "Higher eccentricity elliptical orbit"
PositionHighEccentricity ==
    /\ ellipticalOrbit.eccentricity >= 20
    /\ ellipticalOrbit.eccentricity < 98
    /\ \E t \in 0..MaxOrbitTime : PositionAtTime(t)

\* the orbit is nearly parabolic
PositionNearlyParabolic ==
    /\ ellipticalOrbit.eccentricity >= 98
    /\ \E t \in 0..MaxOrbitTime : PositionAtTime(t)

KeplerNext ==
    \/ PositionCircular
    \/ PositionLowEccentricity
    \/ PositionHighEccentricity
    \/ PositionNearlyParabolic

(***************************************************************************)
(* Ellipsoids: the oblateness of a body in Renderer::render and            *)
(* renderObject.  The oblateness is in hundredths, lengths in km, and the  *)
(* quotients in hundredths.  A float division by zero does not trap: it    *)
(* gives an infinity, or a NaN for 0 / 0.                                  *)
(***************************************************************************)
\* the bodies CreatePlanet can make from a solar system file: Oblateness is
\* read as a number and set as it is read.  posY: the y coordinate of the
\* body in the frame of the observer.
EllipsoidBodies ==
    [ radius     : {1, 6000},
      oblateness : {0, 10, 99, 100, 101, 200},
      atmosphere : BOOLEAN,
      posY       : {0 - 7000, 0, 7000} ]

\* the body before a solar system file is read
FirstEllipsoid ==
    [ radius |-> 6000, oblateness |-> 0, atmosphere |-> FALSE, posY |-> 0 ]

\* Body::getOblateness(): what setOblateness was given
GetOblateness(body) == body.oblateness

\* a / b in float, scaled by `scale'
FloatDiv(a, b, scale) ==
    IF b # 0 THEN [kind |-> "finite", value |-> Quot(a * scale, b)]
    ELSE IF a > 0 THEN [kind |-> "+Inf", value |-> 0]
    ELSE IF a < 0 THEN [kind |-> "-Inf", value |-> 0]
    ELSE [kind |-> "NaN", value |-> 0]

\* "Vec3f recipSemiAxes(1.0f, 1.0f / (1.0f - oblateness), 1.0f)"
RecipSemiAxis(body) ==
    [ site     |-> "recipSemiAxes",
      dividend |-> 100,
      divisor  |-> 100 - GetOblateness(body),
      quotient |-> FloatDiv(100, 100 - GetOblateness(body), 100) ]

\* "-pos.y / ((1.0f - obj.oblateness) * radius)"
EyePosY(body) ==
    [ site     |-> "eyePos_obj",
      dividend |-> (0 - body.posY) * 100,
      divisor  |-> (100 - GetOblateness(body)) * body.radius,
      quotient |-> FloatDiv((0 - body.posY) * 100,
                            (100 - GetOblateness(body)) * body.radius, 100) ]

EllipsoidInit ==
    /\ ellipsoid = FirstEllipsoid
    /\ ellipsoidMath = << >>

DivisionsAt(site) ==
    { n \in 1..Len(ellipsoidMath) : ellipsoidMath[n].site = site }

\* CreatePlanet: a body is made from its definition in a solar system file
CreatePlanet ==
    /\ ellipsoid' \in EllipsoidBodies
    /\ ellipsoidMath' = << >>
    /\ UNCHANGED notEllipsoid

\* Renderer::render finds the body in the render list, with an atmosphere,
\* and computes how far inside it the observer is
AtmosphereDensity ==
    /\ ellipsoid.atmosphere
    /\ DivisionsAt("recipSemiAxes") = {}
    /\ ellipsoidMath' = Append(ellipsoidMath, RecipSemiAxis(ellipsoid))
    /\ UNCHANGED <<ellipsoid, notEllipsoid>>

\* renderObject is called for the body and computes ri.eyePos_obj
RenderObjectEyePos ==
    /\ DivisionsAt("eyePos_obj") = {}
    /\ ellipsoidMath' = Append(ellipsoidMath, EyePosY(ellipsoid))
    /\ UNCHANGED <<ellipsoid, notEllipsoid>>

EllipsoidNext ==
    \/ CreatePlanet
    \/ AtmosphereDensity
    \/ RenderObjectEyePos

(***************************************************************************)
(* Views: CelestiaCore::splitView, deleteView, singleView, TAB, pickView   *)
(*                                                                         *)
(* The place and size of a view are fractions of the window, kept in       *)
(* thousandths; the window is WindowWidth by WindowHeight pixels.          *)
(***************************************************************************)
\* the largest number of view windows
MaxViews == 3

\* View* 0
NoView == 0

\* the View objects that can be allocated: a split for every window but one
NodeIds == 1..(2 * MaxViews - 1)

\* int width, height of CelestiaCore, in pixels
WindowWidth == 100
WindowHeight == 100

\* the points pickView is called with: inside the window, and outside it on
\* either side
PickPoints == { <<x, y>> : x \in {0 - 3, 25, 75, 103}, y \in {25, 75} }

FreeNode ==
    [ type |-> "Free", x |-> 0, y |-> 0, width |-> 0, height |-> 0,
      parent |-> NoView, child1 |-> NoView, child2 |-> NoView ]

\* new View(type, observer, x, y, width, height)
NewView(type, x, y, width, height) ==
    [ type |-> type, x |-> x, y |-> y, width |-> width, height |-> height,
      parent |-> NoView, child1 |-> NoView, child2 |-> NoView ]

\* CelestiaCore::initRenderer: one view over the whole window; activeView(0)
ViewInit ==
    /\ viewTree = [n \in NodeIds |->
                      IF n = 1 THEN NewView("ViewWindow", 0, 0, 1000, 1000) ELSE FreeNode]
    /\ views = << 1 >>
    /\ activeView = 0
    /\ viewFault = FALSE
    /\ flashMessage = ""

\* views[activeView]
ActiveViewNode == views[activeView + 1]

FreeNodes(tree) == { n \in NodeIds : tree[n].type = "Free" }

\* the place a new View is allocated at
FirstFree(free) == CHOOSE n \in free : \A m \in free : n <= m

\* "If active view is too small, don't split it."
TooSmall(type, av) ==
    \/ type = "HorizontalSplit" /\ av.height < 200
    \/ type = "VerticalSplit" /\ av.width < 200

\* the tree after splitView(type, av, 0.5f) has split the node av
SplitTree(tree, type, av) ==
    LET old      == tree[av]
        vertical == type = "VerticalSplit"
        w1       == IF vertical THEN old.width \div 2 ELSE old.width
        w2       == IF vertical THEN old.width - w1 ELSE old.width
        h1       == IF vertical THEN old.height ELSE old.height \div 2
        h2       == IF vertical THEN old.height ELSE old.height - h1
        split    == FirstFree(FreeNodes(tree))
        view     == FirstFree(FreeNodes(tree) \ {split})
    IN  [n \in NodeIds |->
            IF n = split
            THEN [ NewView(type, old.x, old.y, old.width, old.height)
                       EXCEPT !.parent = old.parent, !.child1 = av, !.child2 = view ]
            ELSE IF n = view
            THEN [ NewView("ViewWindow",
                           old.x + (IF vertical THEN w1 ELSE 0),
                           old.y + (IF vertical THEN 0 ELSE h1), w2, h2)
                       EXCEPT !.parent = split ]
            ELSE IF n = av
            THEN [ old EXCEPT !.width = w1, !.height = h1, !.parent = split ]
            ELSE IF n = old.parent
            THEN IF tree[n].child1 = av
                 THEN [ tree[n] EXCEPT !.child1 = split ]
                 ELSE [ tree[n] EXCEPT !.child2 = split ]
            ELSE tree[n] ]

\* the View splitView appends to views
SplitView_NewWindow(tree) == FirstFree(FreeNodes(tree) \ {FirstFree(FreeNodes(tree))})

\* splitView(type) from the keyboard: a view too small is left as it is;
\* otherwise the active view is split in two and the new view is appended
\* to views
SplitView ==
    /\ ~ viewFault
    /\ \E type \in {"HorizontalSplit", "VerticalSplit"} :
          IF TooSmall(type, viewTree[ActiveViewNode])
          THEN /\ flashMessage' = "View too small to be split"
               /\ UNCHANGED <<views, viewTree>>
          ELSE /\ Len(views) < MaxViews
               /\ viewTree' = SplitTree(viewTree, type, ActiveViewNode)
               /\ views' = Append(views, SplitView_NewWindow(viewTree))
               /\ flashMessage' = "Added view"
    /\ UNCHANGED <<activeView, viewFault, notView>>

\* the nodes of the tree under the node n, n included
RECURSIVE Subtree(_, _)
Subtree(tree, n) ==
    IF n = NoView THEN {}
    ELSE {n} \cup Subtree(tree, tree[n].child1) \cup Subtree(tree, tree[n].child2)

\* what View::walkTreeResize(sibling, sign) called on v makes of one node
ResizedNode(tree, v, node, sign) ==
    LET P == tree[tree[v].parent]
        V == tree[v]
        S == tree[node]
    IN  CASE P.type = "HorizontalSplit" ->
                [ S EXCEPT
                    !.height = Quot(S.height * P.height, P.height - V.height),
                    !.y = IF sign = 1
                          THEN P.y + Quot((S.y - P.y) * P.height, P.height - V.height)
                          ELSE P.y + Quot((S.y - (V.y + V.height)) * P.height,
                                          P.height - V.height) ]
          [] P.type = "VerticalSplit" ->
                [ S EXCEPT
                    !.width = Quot(S.width * P.width, P.width - V.width),
                    !.x = IF sign = 1
                          THEN P.x + Quot((S.x - P.x) * P.width, P.width - V.width)
                          ELSE P.x + Quot((S.x - (V.x + V.width)) * P.width,
                                          P.width - V.width) ]
          [] OTHER -> S

\* a sequence without its first element equal to v
RECURSIVE Erase(_, _)
Erase(seq, v) ==
    IF seq = << >> THEN << >>
    ELSE IF Head(seq) = v THEN Tail(seq)
    ELSE << Head(seq) >> \o Erase(Tail(seq), v)

\* the tree after deleteView has deleted the view v and its parent
DeleteTree(tree, v) ==
    LET split    == tree[v].parent
        first    == tree[split].child1 = v
        sibling  == IF first THEN tree[split].child2 ELSE tree[split].child1
        sign     == IF first THEN 0 - 1 ELSE 1
        grand    == tree[split].parent
        resized  == Subtree(tree, sibling)
    IN  [n \in NodeIds |->
            IF n = v \/ n = split THEN FreeNode
            ELSE IF n = sibling
            THEN [ ResizedNode(tree, v, n, sign) EXCEPT !.parent = grand ]
            ELSE IF n \in resized THEN ResizedNode(tree, v, n, sign)
            ELSE IF n = grand
            THEN IF tree[n].child1 = split
                 THEN [ tree[n] EXCEPT !.child1 = sibling ]
                 ELSE [ tree[n] EXCEPT !.child2 = sibling ]
            ELSE tree[n] ]

\* deleteView() from the keyboard: nothing is done for the view that has no
\* parent; otherwise the active view is erased, its sibling takes its
\* place, and the first view becomes the active one
DeleteView ==
    /\ ~ viewFault
    /\ viewTree[ActiveViewNode].parent # NoView
    /\ views' = Erase(views, ActiveViewNode)
    /\ viewTree' = DeleteTree(viewTree, ActiveViewNode)
    /\ activeView' = 0
    /\ UNCHANGED <<viewFault, flashMessage, notView>>

\* singleView() from the keyboard: every view but the active one is
\* deleted and the active one is given the whole window
SingleView ==
    /\ ~ viewFault
    /\ viewTree' = [n \in NodeIds |->
                       IF n = ActiveViewNode
                       THEN [ viewTree[n] EXCEPT !.x = 0, !.y = 0, !.width = 1000,
                                                 !.height = 1000, !.parent = NoView ]
                       ELSE FreeNode]
    /\ views' = << ActiveViewNode >>
    /\ activeView' = 0
    /\ UNCHANGED <<viewFault, flashMessage, notView>>

\* charEntered('\011'): the next view becomes the active one
TabView ==
    /\ ~ viewFault
    /\ activeView' = (IF activeView + 1 >= Len(views) THEN 0 ELSE activeView + 1)
    /\ UNCHANGED <<views, viewTree, viewFault, flashMessage, notView>>

\* the test of pickView: the point is outside the view, by more than two
\* pixels
OutsideView(view, x, y) ==
    \/ (x + 2) * 1000 < view.x * WindowWidth
    \/ (x - 2) * 1000 > (view.x + view.width) * WindowWidth
    \/ ((WindowHeight - y) + 2) * 1000 < view.y * WindowHeight
    \/ ((WindowHeight - y) - 2) * 1000 > (view.y + view.height) * WindowHeight

\* the while loop of pickView: n when the loop ends
RECURSIVE PickedIndex(_, _, _, _, _)
PickedIndex(list, tree, x, y, n) ==
    IF n < Len(list) /\ OutsideView(tree[list[n + 1]], x, y)
    THEN PickedIndex(list, tree, x, y, n + 1)
    ELSE n

\* pickView(x, y) for a point outside the active view: the first view the
\* point is not outside of becomes the active one.  When the point is
\* outside every view the loop ends with n = views.size(), and
\* views[activeView] is read beyond the end of the vector.
PickView ==
    /\ ~ viewFault
    /\ \E p \in PickPoints :
          /\ OutsideView(viewTree[ActiveViewNode], p[1], p[2])
          /\ activeView' = PickedIndex(views, viewTree, p[1], p[2], 0)
    /\ viewFault' = (activeView' >= Len(views))
    /\ UNCHANGED <<views, viewTree, flashMessage, notView>>

ViewNext ==
    \/ SplitView
    \/ DeleteView
    \/ SingleView
    \/ TabView
    \/ PickView

(***************************************************************************)
(* History: CelestiaCore::addToHistory, back, forward, setHistoryCurrent   *)
(***************************************************************************)
\* the longest history
MaxHistory == 4

\* the states of the simulation a Url can capture
Urls == 1..3

HistoryInit ==
    /\ history = << >>
    /\ historyCurrent = 0
    /\ historyPopped = 0

\* a slip: the entries after the current position are kept
Truncated_KeepsAll(list, current) == list

\* "truncating history to current position"
Truncated(list, current) ==
    IF list # << >> /\ current < Len(list) - 1
    THEN SubSeq(list, 1, current + 1)
    ELSE list

\* history after addToHistory() has captured the state url
Added(list, current, url) == Append(Truncated(list, current), url)

\* addToHistory()
AddToHistory ==
    /\ \E url \in Urls :
          /\ Len(Added(history, historyCurrent, url)) <= MaxHistory
          /\ history' = Added(history, historyCurrent, url)
    /\ historyPopped' = Len(history) - Len(Truncated(history, historyCurrent))
    /\ historyCurrent' = Len(history') - 1
    /\ UNCHANGED notHistory

\* back(): nothing at the first entry; at the last entry the state is
\* captured first; then one entry back
Back ==
    /\ historyCurrent # 0
    /\ IF historyCurrent = Len(history) - 1
       THEN /\ \E url \in Urls :
                  /\ Len(Added(history, historyCurrent, url)) <= MaxHistory
                  /\ history' = Added(history, historyCurrent, url)
            /\ historyPopped' = Len(history) - Len(Truncated(history, historyCurrent))
            /\ historyCurrent' = (Len(history') - 1) - 1
       ELSE /\ historyCurrent' = historyCurrent - 1
            /\ UNCHANGED <<history, historyPopped>>
    /\ UNCHANGED notHistory

\* forward()
Forward ==
    /\ Len(history) # 0
    /\ historyCurrent # Len(history) - 1
    /\ historyCurrent' = historyCurrent + 1
    /\ UNCHANGED <<history, historyPopped, notHistory>>

\* setHistoryCurrent(curr): a curr beyond the end is ignored
SetHistoryCurrent ==
    /\ \E curr \in 0..MaxHistory :
          /\ ~ (curr >= Len(history))
          /\ IF historyCurrent = Len(history)
             THEN /\ \E url \in Urls :
                        /\ Len(Added(history, historyCurrent, url)) <= MaxHistory
                        /\ history' = Added(history, historyCurrent, url)
                  /\ historyPopped' = Len(history) - Len(Truncated(history, historyCurrent))
             ELSE UNCHANGED <<history, historyPopped>>
          /\ historyCurrent' = curr
    /\ UNCHANGED notHistory

HistoryNext ==
    \/ AddToHistory
    \/ Back
    \/ Forward
    \/ SetHistoryCurrent

(***************************************************************************)
(* Sky: the tesselation of Renderer::renderEllipsoidAtmosphere             *)
(*                                                                         *)
(* pixSize is kept in tenths of a pixel; ellipDist and the height of the   *)
(* atmosphere are fractions of the radius, kept in thousandths.  A float   *)
(* is a record of its kind and, when it is finite, its value; a pixSize of *)
(* kind "huge" is one beyond the greatest int, infinity included.          *)
(***************************************************************************)
MaxSkyRings == 32
MaxSkySlices == 180
MinSkySlices == 30

\* the arrays allocated in the constructor of Renderer
SkyVerticesSize == MaxSkySlices * (MaxSkyRings + 1)
SkyIndicesSize == (MaxSkySlices + 1) * 2 * MaxSkyRings
SkyContourSize == MaxSkySlices + 1

\* the limits of int
IntMin == (0 - 2147483647) - 1
IntMax == 2147483647

\* thicknessInPixels is 0, or atmosphere->height / ((distance - radius) *
\* pixelSize) with distance - radius > 0: never negative, and as large as
\* the observer is close to the surface
PixSizes ==
    { [kind |-> "finite", value |-> t] :
          t \in {0, 20, 49, 50, 99, 100, 249, 250, 251, 300, 10000, 2147483647} }
    \cup { [kind |-> "huge", value |-> 0] }

\* ellipDist = sqrt(...) - 1: never below -1, finite or not a number
EllipDists ==
    { [kind |-> "finite", value |-> d] :
          d \in {0 - 1000, 0 - 500, 0 - 1, 0, 1, 5, 100, 125, 249, 250, 251, 1000, 5000} }
    \cup { [kind |-> "NaN", value |-> 0] }

\* atmosphere.height / radius
SkyHeights == {0, 10, 300}

\* a < b for floats: false when a is not a number
FloatLess(a, b) == a.kind = "finite" /\ a.value < b

\* the values (int) pixSize can have: the truncated value when it fits an
\* int; the conversion is undefined otherwise, and the build leaves the
\* least int, the greatest int or 0
IntOfPixSize(pixSize) ==
    IF pixSize.kind = "finite" THEN {pixSize.value \div 10} ELSE {IntMin, IntMax, 0}

\* a / b of ints, b > 0: the quotient truncated toward zero
IntQuot(a, b) ==
    IF a >= 0 THEN a \div b
    ELSE LET m == 0 - (a + 1)
         IN  0 - ((m \div b) + (IF m % b = b - 1 THEN 1 ELSE 0))

\* nSlices: MaxSkySlices, fewer when the observer is near the surface
NSlices(ellipDist) ==
    IF FloatLess(ellipDist, 250)
    THEN LET n == MinSkySlices
                    + Max2(0, Quot(ellipDist.value * (MaxSkySlices - MinSkySlices), 250))
         IN  n - (n % 2)
    ELSE MaxSkySlices

\* a slip: the ring count without its limit of 6
NHorizonRings_NoLimit(intPixSize) == 1 + IntQuot(intPixSize, 5)

\* nHorizonRings = min(1 + (int) pixSize / 5, 6)
NHorizonRings(intPixSize) == Min2(1 + IntQuot(intPixSize, 5), 6)

\* nRings: twelve more rings within the atmosphere
NRings(intPixSize, within) ==
    NHorizonRings(intPixSize) + (IF within THEN 12 ELSE 0)

\* the SkyContourPoints written: for (i = 0; i <= nSlices; i++)
ContourWrites(nSlices) == IF nSlices < 0 THEN 0 ELSE nSlices + 1

\* the SkyVertex written: for (i = 0; i <= nRings; i++) for (j = 0; j < nSlices; j++)
VertexWrites(nRings, nSlices) ==
    IF nRings < 0 \/ nSlices <= 0 THEN 0 ELSE (nRings + 1) * nSlices

\* the indices written: for (i = 0; i < nRings; i++), 2 * nSlices + 2 each
IndexWrites(nRings, nSlices) ==
    IF nRings <= 0 THEN 0 ELSE nRings * (2 * Max2(nSlices, 0) + 2)

NoSkyCall ==
    [ drawn |-> FALSE, pixSize |-> [kind |-> "finite", value |-> 0], ellipDist |-> [kind |-> "finite", value |-> 0],
      height |-> 0, within |-> FALSE, nSlices |-> 0, nRings |-> 0,
      contour |-> 0, vertices |-> 0, indices |-> 0 ]

SkyInit == skyCalls = NoSkyCall

\* renderEllipsoidAtmosphere(atmosphere, ..., pixSize, lit): nothing for an
\* atmosphere of no height; otherwise the contour, the vertices and the
\* indices are written
RenderEllipsoidAtmosphere ==
    /\ \E pixSize \in PixSizes, ellipDist \in EllipDists, height \in SkyHeights :
          IF height = 0
          THEN skyCalls' = [ NoSkyCall EXCEPT !.pixSize = pixSize ]
          ELSE \E intPixSize \in IntOfPixSize(pixSize) :
                  LET within  == FloatLess(ellipDist, height)
                      nSlices == NSlices(ellipDist)
                      nRings  == NRings(intPixSize, within)
                  IN  skyCalls' =
                          [ drawn |-> TRUE, pixSize |-> pixSize, ellipDist |-> ellipDist,
                            height |-> height, within |-> within,
                            nSlices |-> nSlices, nRings |-> nRings,
                            contour |-> ContourWrites(nSlices),
                            vertices |-> VertexWrites(nRings, nSlices),
                            indices |-> IndexWrites(nRings, nSlices) ]
    /\ UNCHANGED notSky

SkyNext == RenderEllipsoidAtmosphere

\* the state after construction, with every choice of the configuration
AnyInit ==
    /\ pc = "idle"
    /\ DepthInit
    /\ OrbitInit
    /\ EclipseInit
    /\ ListInit
    /\ KeplerInit
    /\ EllipsoidInit
    /\ ViewInit
    /\ HistoryInit
    /\ SkyInit

\* the configuration DetailOptions sets and the orbits of the second table
DefaultOrbits ==
    /\ orbitPathSamplePoints = 100
    /\ orbits = OrbitsWith(550)

DefaultBuffer == starVertexBuffer.capacity = 2

DefaultContext == renderPath = "GLPath_Basic"

DefaultEllipse == ellipticalOrbit = FirstEllipticalOrbit

Init ==
    /\ AnyInit
    /\ DefaultBuffer
    /\ DefaultContext
    /\ DefaultEllipse

\* Init with the configuration the orbit cache alone reads left as
\* DetailOptions sets it
InitDefault ==
    /\ Init
    /\ DefaultOrbits

\* Init with the render path of the context left open
InitEclipse ==
    /\ AnyInit
    /\ DefaultOrbits
    /\ DefaultBuffer
    /\ DefaultEllipse

\* Init with the elements of the elliptical orbit left open
InitKepler ==
    /\ AnyInit
    /\ DefaultOrbits
    /\ DefaultBuffer
    /\ DefaultContext

SpecDepth == InitDefault /\ [][DepthNext]_vars

SpecOrbit == Init /\ [][OrbitNext]_vars

SpecEclipse == InitEclipse /\ [][EclipseNext]_vars

\* Init with the capacity of the star vertex buffer left open
InitList ==
    /\ AnyInit
    /\ DefaultOrbits
    /\ DefaultContext
    /\ DefaultEllipse

SpecList == InitList /\ [][ListNext]_vars

SpecKepler == InitKepler /\ [][KeplerNext]_vars

SpecEllipsoid == InitDefault /\ [][EllipsoidNext]_vars

SpecView == InitDefault /\ [][ViewNext]_vars

SpecHistory == InitDefault /\ [][HistoryNext]_vars

SpecSky == InitDefault /\ [][SkyNext]_vars

(***************************************************************************)
(* Properties of the depth partitioning                                    *)
(***************************************************************************)
\* the entries drawn as meshes: those that get a depth bucket
Meshes == { k \in 1..Len(renderList) : renderList[k].discSizeInPixels > 1 }

MeshBuckets == { renderList[k].depthBucket : k \in Meshes }

PartitionComplete == pc = "draw"

\* far / near <= MaxFarNearRatio for the (negative) clip values of an entry
RatioWithinBound(e) == e.farZ >= e.nearZ * MaxFarNearRatio

\* no attempt to coalesce two meshes of the list can fail: the clip values
\* the culler gave to any two of them are within MaxFarNearRatio
EveryCoalesceSucceeds ==
    \A a, b \in Meshes :
        RatioAcceptable(Min2(CullEntry(renderList[a]).farZ, CullEntry(renderList[b]).farZ),
                        Max2(CullEntry(renderList[a]).nearZ, CullEntry(renderList[b]).nearZ))

\* C1: once the partitioning is complete, the depth ranges of the buckets
\* are ordered and do not overlap: of two mesh entries in different buckets,
\* the range of the one in the lower bucket ends no farther than the range
\* of the other begins (nearer is greater, as z is negative).  Stated for
\* the frames where no coalescing fails: the comments of the code accept
\* overlapping buckets when a coalescing fails for the far / near ratio.
C1_BucketsOrderedWhenCoalescingSucceeds ==
    (PartitionComplete /\ EveryCoalesceSucceeds) =>
        \A a, b \in Meshes :
            renderList[a].depthBucket < renderList[b].depthBucket
                => /\ renderList[a].farZ >= renderList[b].nearZ
                   /\ renderList[a].nearZ >= renderList[b].nearZ

\* C2: once the partitioning is complete, every entry larger than a pixel
\* has a depth-bucket index, the index is one of the allocated buckets
\* 0 .. nDepthBuckets - 1, and the indices do not decrease along the list
\* (so the entries of one bucket are contiguous among the meshes).
C2_BucketAssigned ==
    PartitionComplete =>
        /\ \A k \in Meshes :
              /\ renderList[k].depthBucket # NoBucket
              /\ renderList[k].depthBucket \in 0..(nDepthBuckets - 1)
        /\ \A a, b \in Meshes :
              a < b => renderList[a].depthBucket <= renderList[b].depthBucket

\* C2 witness: a partitioned list of three meshes, two of them coalesced
\* into one bucket and the third in a bucket of its own.
C2_Witness ==
    /\ PartitionComplete
    /\ Cardinality(Meshes) = 3
    /\ Cardinality(MeshBuckets) = 2

\* the meshes that share a bucket with another mesh
InCoalescedBucket(k) ==
    \E m \in Meshes : m # k /\ renderList[m].depthBucket = renderList[k].depthBucket

\* C3 as stated: for every final bucket the clip values stored for its
\* entries have far / near <= MaxFarNearRatio.
C3_StoredRatioBounded ==
    PartitionComplete => \A k \in Meshes : RatioWithinBound(renderList[k])

\* C3 amended: the stored clip values have far / near <= MaxFarNearRatio
\* for every entry of a coalesced bucket and for every non-convex entry
\* (rings or a mesh); the stored ratio of a convex entry alone in its bucket
\* is not bounded.
C3_StoredRatioBoundedUnlessConvexAlone ==
    PartitionComplete =>
        \A k \in Meshes :
            (InCoalescedBucket(k) \/ ~ ConvexOf(renderList[k]))
                => RatioWithinBound(renderList[k])

\* C3 witness: a partitioned list with a coalesced bucket and a non-convex
\* entry alone in its bucket whose near clip was pulled out to the ratio.
C3_Witness ==
    /\ PartitionComplete
    /\ \E k \in Meshes : InCoalescedBucket(k)
    /\ \E k \in Meshes :
          /\ ~ InCoalescedBucket(k)
          /\ ~ ConvexOf(renderList[k])
          /\ renderList[k].farZ = renderList[k].nearZ * MaxFarNearRatio
          /\ renderList[k].nearZ # NearZOf(renderList[k])

\* C4 as stated: the depth range is cut into as many slices as there are
\* buckets holding meshes, and the nearest of these buckets is bucket 0.
C4_SlicesEqualMeshBuckets ==
    (PartitionComplete /\ Meshes # {}) =>
        /\ nDepthBuckets = Cardinality(MeshBuckets)
        /\ 0 \in MeshBuckets

\* C4 amended: with N buckets holding meshes the depth range is cut into
\* N + 1 equal slices: nDepthBuckets = N + 1, the buckets of the meshes are
\* 1 .. N (the nearest is bucket 1, bucket 0 holds no mesh), and every mesh
\* of bucket b is drawn with the depth range [b/(N+1), (b+1)/(N+1)].
C4_SlicesOneMoreThanMeshBuckets ==
    PartitionComplete =>
        LET N == Cardinality(MeshBuckets)
        IN  /\ nDepthBuckets = N + 1
            /\ MeshBuckets = 1..N
            /\ \A n \in 1..Len(depthRanges) :
                  /\ depthRanges[n].den = N + 1
                  /\ depthRanges[n].hi = depthRanges[n].lo + 1
                  /\ depthRanges[n].lo \in 0..N
            /\ \A n \in 1..Len(drawn) :
                  drawn[n].entry \in Meshes =>
                      \E c \in 1..Len(depthRanges) :
                          depthRanges[c] =
                              [lo  |-> renderList[drawn[n].entry].depthBucket,
                               hi  |-> renderList[drawn[n].entry].depthBucket + 1,
                               den |-> N + 1]

\* C4 witness: three meshes whose depth ranges are disjoint have all been
\* drawn; they fill three buckets and the depth range was cut in four.
C4_Witness ==
    /\ PartitionComplete
    /\ i = 0
    /\ Cardinality(Meshes) = 3
    /\ Len(renderList) = 3
    /\ Cardinality(MeshBuckets) = 3
    /\ \A a, b \in Meshes : a < b => renderList[a].farZ >= renderList[b].nearZ
    /\ nDepthBuckets = 4

(***************************************************************************)
(* Properties of the orbit cache                                           *)
(***************************************************************************)
\* the bodies whose orbit was drawn in the frame
Requested == { orbitCalls[n] : n \in 1..Len(orbitCalls) }

CachedBodies == { orbitCache[k].body : k \in 1..Len(orbitCache) } \ {NULL}

\* C5: the keep-flag protocol is applied to the frame as a whole.  While
\* the orbits of a frame are drawn, the entries whose keep flag is set are
\* exactly those of the bodies drawn so far (every flag was cleared before
\* the first renderOrbit call) and each body drawn so far still has its
\* entry (nothing is released before renderOrbits returns); when the frame
\* is over the bodies left in the cache are exactly those drawn in it.
C5_KeepProtocol ==
    /\ pc = "orbits" =>
          /\ \A k \in 1..Len(orbitCache) :
                orbitCache[k].keep <=> orbitCache[k].body \in Requested
          /\ Requested \subseteq CachedBodies
    /\ pc = "idle" => CachedBodies = Requested

\* C5 witness: a frame has ended in which one body of the cache was drawn
\* again and kept, and another was not drawn and has been released.
C5_Witness ==
    /\ pc = "idle"
    /\ \E k \in 1..Len(orbitCache) :
          /\ orbitCache[k].body = NULL
          /\ orbitCache[k].trajectory # NoSamples
    /\ \E k \in 1..Len(orbitCache) :
          /\ orbitCache[k].body # NULL
          /\ orbitCache[k].trajectory.startTime # StartTime(orbitCache[k].body, now)

\* C6: the orbit cache never holds two entries for one body.
C6_OneEntryPerBody ==
    \A a, b \in 1..Len(orbitCache) :
        (a # b /\ orbitCache[a].body # NULL) => orbitCache[a].body # orbitCache[b].body

\* C6 witness: the cache holds entries for two bodies, one of them in an
\* entry that was recycled from a third body.
C6_Witness ==
    /\ Cardinality(CachedBodies) = 2
    /\ \E k \in 1..Len(orbitCache) :
          /\ orbitCache[k].body # NULL
          /\ k > 1
          /\ \E m \in 1..(k - 1) : orbitCache[m].body = NULL
    /\ Len(orbitCalls) = MaxOrbitCalls

\* the step is a renderOrbit call for a body already drawn in the frame
SecondRequest ==
    /\ Len(orbitCalls') = Len(orbitCalls) + 1
    /\ orbitCalls'[Len(orbitCalls')] \in Requested

\* C7: a renderOrbit call for a body already drawn in the frame changes
\* nothing in the cache (not its length, not any entry's samples or keep
\* flag or body) and calls Orbit::sample for nothing.
C7_SecondRequestIdempotent ==
    [][SecondRequest => (orbitCache' = orbitCache /\ samplings' = samplings)]_vars

\* C7 witness: a body was drawn twice in a frame and sampled once in it.
C7_Witness ==
    /\ pc = "orbits"
    /\ \E a, b \in 1..Len(orbitCalls) : a # b /\ orbitCalls[a] = orbitCalls[b]
    /\ \E b \in Bodies :
          /\ Cardinality({ n \in 1..Len(orbitCalls) : orbitCalls[n] = b }) = 2
          /\ Cardinality({ n \in 1..Len(samplings) : samplings[n].body = b }) = 1

\* C8 as stated: a periodic orbit is sampled with orbitPathSamplePoints
\* samples and an aperiodic one with a number of samples within [100, 1000].
C8_SampleCountClaimed ==
    \A n \in 1..Len(samplings) :
        IF orbits[samplings[n].body].periodic
        THEN samplings[n].nSamples = orbitPathSamplePoints
        ELSE samplings[n].nSamples \in 100..1000

\* C8 amended: a periodic orbit, and an aperiodic orbit whose valid range is
\* a single time (begin = end), is sampled with orbitPathSamplePoints
\* samples; an aperiodic orbit with begin # end is sampled with
\* (int) (period * 100) samples, raised to 100 and cut to 1000.
C8_SampleCount ==
    \A n \in 1..Len(samplings) :
        LET o == orbits[samplings[n].body]
            c == samplings[n].nSamples
        IN  IF o.periodic \/ o.begin = o.end
            THEN c = orbitPathSamplePoints
            ELSE /\ c \in 100..1000
                 /\ o.period100 \in 100..1000 => c = o.period100
                 /\ o.period100 < 100 => c = 100
                 /\ o.period100 > 1000 => c = 1000

\* C8 witness: in one frame the three kinds of orbit were sampled, the
\* aperiodic one with a period that calls for more than 1000 samples.
C8_Witness ==
    /\ Len(samplings) = 3
    /\ { samplings[n].body : n \in 1..Len(samplings) } = Bodies
    /\ orbits[2].period100 > 1000
    /\ orbitPathSamplePoints < 100

(***************************************************************************)
(* Properties of testEclipse                                               *)
(***************************************************************************)
\* the step is a call of testEclipse
TestEclipseStep == Len(eclipseTests') = Len(eclipseTests) + 1

LastTest == eclipseTests[Len(eclipseTests)]

\* the caster of a test is smaller than a hundredth of the receiver, or
\* Invisible, or has a model
ToBeSkipped(t) ==
    \/ System[t.caster].radius * 100 < System[t.receiver].radius
    \/ System[t.caster].invisible
    \/ System[t.caster].model

\* C9: testEclipse returns false and appends no EclipseShadow when the
\* caster's radius times 100 is less than the receiver's radius, or the
\* caster is Invisible, or the caster has a model, wherever the bodies are.
C9_UnfitCasterSkipped ==
    [][(TestEclipseStep /\ ToBeSkipped(LastTest'))
          => (~ LastTest'.result /\ eclipseShadows' = eclipseShadows)]_vars

\* C9 witness: in one pass over the casters of the planet, a caster too
\* small, an Invisible caster and a caster with a model were tested, each
\* standing where a caster that qualifies casts a shadow on the planet.
C9_Witness ==
    /\ pc = "eclipse"
    /\ casters = << >>
    /\ eclipseShadows # << >>
    /\ \E a, b, c \in 1..Len(eclipseTests) :
          /\ System[eclipseTests[a].caster].radius * 100
                < System[eclipseTests[a].receiver].radius
          /\ System[eclipseTests[b].caster].invisible
          /\ System[eclipseTests[c].caster].model
          /\ \A n \in {a, b, c} :
                /\ InShadow(positions, eclipseTests[n].receiver, eclipseTests[n].caster)
                /\ ~ eclipseTests[n].result

\* two tests of one pass whose casters stand at the same place, the first
\* with 50 times and the second with 200 times the radius of the receiver
SamePlacePair(a, b) ==
    /\ eclipseTests[a].receiver = eclipseTests[b].receiver
    /\ positions[eclipseTests[a].caster] = positions[eclipseTests[b].caster]
    /\ System[eclipseTests[a].caster].radius = 50 * System[eclipseTests[a].receiver].radius
    /\ System[eclipseTests[b].caster].radius = 200 * System[eclipseTests[b].receiver].radius

\* C10 as stated: of two casters at the same place, one of 200 times and
\* one of 50 times the radius of the receiver, the one of 50 times produces
\* no EclipseShadow.
C10_FiftyTimesCasterCastsNone ==
    \A a, b \in 1..Len(eclipseTests) :
        SamePlacePair(a, b) => ~ eclipseTests[a].result

\* C10 amended: of two casters at the same place, one of 200 times and one
\* of 50 times the radius of the receiver, both pass the size test (each is
\* at least a hundredth of the receiver); each produces an EclipseShadow
\* exactly when the receiver reaches into its shadow cylinder, so the one
\* of 200 times produces one whenever the one of 50 times does.
C10_BothCastersQualify ==
    \A a, b \in 1..Len(eclipseTests) :
        SamePlacePair(a, b) =>
            /\ eclipseTests[a].result => eclipseTests[b].result
            /\ \A n \in {a, b} :
                  eclipseTests[n].result
                      <=> InShadow(positions, eclipseTests[n].receiver,
                                   eclipseTests[n].caster)

\* C10 witness: the two casters stand at the same place, in line with the
\* sun and the receiver, and each has produced an EclipseShadow.
C10_Witness ==
    /\ Len(eclipseShadows) >= 2
    /\ \E a, b \in 1..Len(eclipseTests) :
          /\ SamePlacePair(a, b)
          /\ eclipseTests[a].result
          /\ eclipseTests[b].result

\* C11: testEclipse appends exactly one EclipseShadow record to the list of
\* shadows when it returns true, after the records the list held, and leaves
\* the list unchanged when it returns false.
C11_OneRecordWhenTrue ==
    [][TestEclipseStep =>
          IF LastTest'.result
          THEN /\ Len(eclipseShadows') = Len(eclipseShadows) + 1
               /\ SubSeq(eclipseShadows', 1, Len(eclipseShadows)) = eclipseShadows
               /\ eclipseShadows'[Len(eclipseShadows')]
                     = ShadowOf(positions, LastTest'.receiver, LastTest'.caster)
          ELSE eclipseShadows' = eclipseShadows]_vars

\* C11 witness: in one pass over the casters of a body some calls returned
\* true and some false, a false one after a true one, and the list holds one
\* record for each call that returned true.
C11_Witness ==
    /\ pc = "eclipse"
    /\ Len(eclipseShadows) >= 2
    /\ Len(eclipseShadows)
          = Cardinality({ n \in 1..Len(eclipseTests) : eclipseTests[n].result })
    /\ \E a, b \in 1..Len(eclipseTests) :
          /\ a < b
          /\ eclipseTests[a].result
          /\ ~ eclipseTests[b].result
          /\ CasterQualifies(eclipseTests[b].receiver, eclipseTests[b].caster)

(***************************************************************************)
(* Properties of the stars and of the render-list builder                  *)
(***************************************************************************)
\* C12: of two stars added to the vertex buffer in the same frame (the same
\* faintest and saturation magnitude, brightness scale and bias), the one
\* of lower apparent magnitude gets an alpha at least as great, in every
\* star style.  The apparent magnitude of a star is the one process
\* computes alpha from: for a star less than a light year away, the one it
\* computes again.
C12_BrighterStarNoFainter ==
    \A a, b \in 1..Len(addedStars) :
        addedStars[a].appMag < addedStars[b].appMag
            => addedStars[a].alpha >= addedStars[b].alpha

\* C12 witness: scaled discs; two stars were added, the brighter a near
\* star whose alpha is cut to 1, a third one is too faint to be seen, and
\* two of them got alphas strictly between 0 and 1 that differ.
C12_Witness ==
    /\ scene.starStyle = "ScaledDiscStars"
    /\ \E a, b, c, d \in 1..Len(addedStars) :
          /\ NearStar(addedStars[a].star)
          /\ addedStars[a].alpha = 1000
          /\ addedStars[d].alpha = 0
          /\ addedStars[b].appMag < addedStars[c].appMag
          /\ addedStars[b].alpha < 1000
          /\ addedStars[c].alpha > 0
          /\ addedStars[b].alpha > addedStars[c].alpha

\* the entries of the render list made for a body itself
BodyEntriesOf(body) ==
    { k \in 1..Len(renderList) :
        renderList[k].body = body /\ ~ renderList[k].isCometTail }

VisitedBodies == { visited[k] : k \in 1..Len(visited) }

LargeOrBright(body) ==
    \/ DiscSizeOf(SolarBodies[body].radius, DistanceOf(scene), scene.pixelSize) > 100
    \/ AppMagOf(body, scene) < scene.faintestMag

\* C13 as stated: a body that is extant and reached by the walk is in the
\* render list if its disc is larger than a pixel or it is brighter than the
\* faintest magnitude, and not otherwise.
C13_ListedIffLargeOrBright ==
    pc \in {"bodies", "stars"} =>
        \A body \in VisitedBodies :
            (\E k \in 1..Len(renderList) : renderList[k].body = body)
                <=> LargeOrBright(body)

\* C13 amended: a body that is extant and reached by the walk gets one entry
\* of its own if its disc is larger than a pixel or it is brighter than the
\* faintest magnitude, and it is not Invisible; it gets none otherwise, and
\* a body the walk does not reach gets none.  The body of radius 6371 km
\* seen from 1,000,000 km with pixels of 1e-6 rad has a disc of 6371 pixels
\* and is listed.
C13_ListedIffLargeOrBrightAndVisible ==
    pc \in {"bodies", "stars"} =>
        /\ \A body \in 1..Len(SolarBodies) :
              Cardinality(BodyEntriesOf(body))
                  = IF /\ body \in VisitedBodies
                       /\ LargeOrBright(body)
                       /\ SolarBodies[body].class # "Invisible"
                    THEN 1 ELSE 0
        /\ (1 \in VisitedBodies /\ ~ scene.far) =>
              \E k \in BodyEntriesOf(1) :
                  /\ renderList[k].radius = 6371
                  /\ renderList[k].distance = 1000
                  /\ renderList[k].discSizeInPixels = 637100

\* C13 witness: the walk is over, seen from 1,000,000 km: the body of
\* radius 6371 km is listed, the Invisible body is not though its disc is
\* larger than a pixel, its satellite is, and a body neither large nor
\* bright is not.
C13_Witness ==
    /\ pc = "bodies"
    /\ toVisit = << >>
    /\ ~ scene.far
    /\ {1, 3, 4, 7} \subseteq VisitedBodies
    /\ BodyEntriesOf(1) # {}
    /\ LargeOrBright(3)
    /\ BodyEntriesOf(3) = {}
    /\ BodyEntriesOf(4) # {}
    /\ ~ LargeOrBright(7)
    /\ BodyEntriesOf(7) = {}

\* C14: every entry of the render list has exactly one of its body and its
\* star set, whether it was made for a body, for the tail of a comet or for
\* a star promoted to the list.
C14_BodyOrStar ==
    \A k \in 1..Len(renderList) :
        (renderList[k].body # NULL) # (renderList[k].star # NULL)

\* C14 witness: the list holds an entry of a body, an entry of the tail of
\* a comet and an entry of a star.
C14_Witness ==
    \E a, b, c \in 1..Len(renderList) :
        /\ renderList[a].body # NULL /\ ~ renderList[a].isCometTail
        /\ renderList[b].body # NULL /\ renderList[b].isCometTail
        /\ renderList[c].star # NULL

\* the stars of a sequence of draw calls, in order
RECURSIVE Flatten(_)
Flatten(calls) ==
    IF calls = << >> THEN << >> ELSE Head(calls) \o Flatten(Tail(calls))

\* C15: between start() and finish() the count of stored stars never exceeds
\* the capacity; a draw call is made each time the count reaches the
\* capacity, and the count starts again from 0; no star is dropped: the
\* stars drawn and the stars stored are the stars added, in order; when
\* finish() has returned every star added was drawn exactly once.
C15_EveryStarDrawnOnce ==
    LET buffer == starVertexBuffer
    IN  /\ buffer.nStars = Len(buffer.stored)
        /\ buffer.nStars < buffer.capacity
        /\ \A k \in 1..Len(buffer.draws) :
              /\ Len(buffer.draws[k]) <= buffer.capacity
              /\ (k < Len(buffer.draws) \/ pc = "stars")
                    => Len(buffer.draws[k]) = buffer.capacity
        /\ Flatten(buffer.draws) \o buffer.stored = addedStars
        /\ pc = "idle" => (buffer.nStars = 0 /\ Flatten(buffer.draws) = addedStars)

\* C15 witness: finish() has returned; more stars were added than the buffer
\* holds, it was drawn when it was full and the rest was drawn by finish().
C15_Witness ==
    /\ pc = "idle"
    /\ starVertexBuffer.capacity = 2
    /\ Len(addedStars) = 5
    /\ Len(starVertexBuffer.draws) = 3
    /\ Len(starVertexBuffer.draws[3]) = 1

(***************************************************************************)
(* Properties of renderObject                                              *)
(***************************************************************************)
\* the render paths the switch of renderObject has a case for
DedicatedPaths ==
    { "GLPath_NV30", "GLPath_NvCombiner_ARBVP", "GLPath_NvCombiner_NvVP",
      "GLPath_NvCombiner", "GLPath_DOT3_ARBVP" }

\* C16: for every render path, renderObject draws a lit sphere with exactly
\* one call of a surface strategy; a path without a case of its own, the
\* basic path among them, gets the fixed-function renderSphereDefault; no
\* path leaves the sphere undrawn.
C16_OneStrategyForLitSphere ==
    \A k \in 1..Len(objectCalls) :
        (objectCalls[k].lit /\ objectCalls[k].sphere) =>
            /\ Len(objectCalls[k].calls) = 1
            /\ objectCalls[k].path \notin DedicatedPaths
                  => objectCalls[k].calls = << "renderSphereDefault" >>
            /\ objectCalls[k].path \in DedicatedPaths
                  => objectCalls[k].calls # << "renderSphereDefault" >>

\* C16 witness: a lit sphere was drawn with the basic path, by
\* renderSphereDefault, with the eclipse shadows found for it.
C16_Witness ==
    /\ eclipseShadows # << >>
    /\ \E k \in 1..Len(objectCalls) :
          /\ objectCalls[k].lit
          /\ objectCalls[k].sphere
          /\ objectCalls[k].path = "GLPath_Basic"
          /\ objectCalls[k].calls = << "renderSphereDefault" >>

(***************************************************************************)
(* Properties of EllipticalOrbit::positionAtTime                           *)
(***************************************************************************)
\* C17: for an orbit of eccentricity exactly 0, positionAtTime takes the
\* mean anomaly as the eccentric anomaly, without a step of iteration; when
\* the mean anomaly is 0, the z it computes in the plane of the orbit is 0.
C17_CircularOrbit ==
    \A k \in 1..Len(positionCalls) :
        ellipticalOrbit.eccentricity = 0 =>
            /\ positionCalls[k].eccAnomaly = positionCalls[k].meanAnomaly
            /\ positionCalls[k].iterations = 0
            /\ positionCalls[k].meanAnomaly = 0 => positionCalls[k].z = 0

\* C17 witness: a circular orbit asked for its position at its epoch, where
\* the mean anomaly is 0: the body is at x = semiMajorAxis, z = 0.
C17_Witness ==
    /\ ellipticalOrbit.eccentricity = 0
    /\ \E k \in 1..Len(positionCalls) :
          /\ positionCalls[k].meanAnomaly = 0
          /\ positionCalls[k].eccAnomaly = 0
          /\ positionCalls[k].x = ellipticalOrbit.semiMajorAxis
          /\ positionCalls[k].z = 0

(***************************************************************************)
(* Properties of the render loop and of coalescing                         *)
(***************************************************************************)
\* the entries of `drawn' that were drawn as meshes
DrawnMeshes == { k \in 1..Len(drawn) : drawn[k].entry \in Meshes }

\* C18: the projection a mesh is drawn with has its near plane no closer
\* than MinNearPlaneDistance and a far plane no more than MaxFarNearRatio
\* times as far, whatever nearZ and farZ the entry carries; and the nearZ
\* of every entry that survives culling is at least MinNearPlaneDistance
\* from the camera.
C18_ProjectionWithinLimits ==
    /\ \A k \in DrawnMeshes :
          /\ drawn[k].near >= MinNearPlaneDistance
          /\ drawn[k].far <= drawn[k].near * MaxFarNearRatio
    /\ \A k \in 1..Len(renderList) :
          renderList[k].nearZ <= 0 - MinNearPlaneDistance

\* C18 witness: a mesh was drawn whose nearZ * -0.9 is closer than
\* MinNearPlaneDistance and whose farZ * -1.5 is more than MaxFarNearRatio
\* times as far as the near plane: both planes were moved.
C18_Witness ==
    \E k \in DrawnMeshes :
        LET e == renderList[drawn[k].entry]
        IN  /\ Quot(e.nearZ * (0 - 9), 10) < MinNearPlaneDistance
            /\ Quot(e.farZ * (0 - 15), 10) > MinNearPlaneDistance * MaxFarNearRatio
            /\ drawn[k].near = MinNearPlaneDistance
            /\ drawn[k].far = MinNearPlaneDistance * MaxFarNearRatio

\* the meshes the partitioning has given a bucket, by bucket
InBucket(b) == { k \in Meshes : renderList[k].depthBucket = b }

\* C19: the range written to the entries of a bucket covers the near/far
\* extent the culler gave to every entry of the bucket, however many
\* entries were coalesced into it: it begins no farther than each begins
\* and ends no nearer than each ends.
C19_BucketCoversItsEntries ==
    \A b \in 1..(nDepthBuckets - 1) :
        \A j, k \in InBucket(b) :
            /\ renderList[j].nearZ >= CullEntry(renderList[k]).nearZ
            /\ renderList[j].farZ <= CullEntry(renderList[k]).farZ

\* C20: in the render loop the depth bucket an entry is drawn in is never
\* higher than the one the entry before it was drawn in, whether the
\* entries are meshes of their own bucket, meshes of a coalesced bucket or
\* no larger than a pixel.
C20_BucketNeverIncreases ==
    \A k \in 1..(Len(drawn) - 1) : drawn[k + 1].bucket <= drawn[k].bucket

(***************************************************************************)
(* Properties of the slots of the orbit cache                              *)
(***************************************************************************)
\* the step is a renderOrbit call for a body that is not in the cache
MissingRequest ==
    /\ Len(orbitCalls') = Len(orbitCalls) + 1
    /\ CachedIndex(orbitCache, orbitCalls'[Len(orbitCalls')]) = 0

\* the bodies sampled in the frame
SampledBodies == { samplings[n].body : n \in 1..Len(samplings) }

\* C21: a renderOrbit call for a body that is not in the cache overwrites
\* the first released entry (body NULL) where it stands when there is one,
\* and appends a new entry only when there is none; the cache grows by one
\* only in that case and never shrinks, and an entry whose body is set is
\* never given another body, whatever its keep flag.
C21_ReleasedSlotReused ==
    [][ /\ MissingRequest =>
            LET body == orbitCalls'[Len(orbitCalls')]
                free == CachedIndex(orbitCache, NULL)
            IN  IF free # 0
                THEN /\ Len(orbitCache') = Len(orbitCache)
                     /\ orbitCache'[free].body = body
                     /\ \A k \in 1..Len(orbitCache) :
                           k # free => orbitCache'[k] = orbitCache[k]
                ELSE /\ Len(orbitCache') = Len(orbitCache) + 1
                     /\ orbitCache'[Len(orbitCache')].body = body
                     /\ \A k \in 1..Len(orbitCache) : orbitCache'[k] = orbitCache[k]
        /\ ~ MissingRequest => Len(orbitCache') = Len(orbitCache)
        /\ \A k \in 1..Len(orbitCache) :
              orbitCache[k].body # NULL =>
                  orbitCache'[k].body \in {orbitCache[k].body, NULL} ]_vars

\* C21 witness: in a frame a body was sampled into an entry that stands
\* before an entry of an earlier frame, so a released entry was reused; the
\* later entry still has its body, with its keep flag cleared.
C21_Witness ==
    /\ pc = "orbits"
    /\ \E k, m \in 1..Len(orbitCache) :
          /\ k < m
          /\ orbitCache[k].body \in SampledBodies
          /\ orbitCache[m].body # NULL
          /\ ~ orbitCache[m].keep
          /\ orbitCache[m].body \notin SampledBodies

(***************************************************************************)
(* Properties of the traversal of the planetary system                     *)
(***************************************************************************)
\* the bodies above `body' in the hierarchy of satellite systems
RECURSIVE AncestorsOf(_)
AncestorsOf(body) ==
    IF SolarBodies[body].system = NULL THEN {}
    ELSE {SolarBodies[body].system} \cup AncestorsOf(SolarBodies[body].system)

\* the bodies that have an entry in the render list
ListedBodies ==
    { renderList[k].body : k \in 1..Len(renderList) } \ {NULL}

\* C22: a body is in the render list only if every body above it in the
\* hierarchy of satellite systems has appMag < faintestPlanetMag, whatever
\* its own disc size and magnitude.
C22_ListedOnlyUnderBrightAncestors ==
    \A body \in ListedBodies :
        \A a \in AncestorsOf(body) : AppMagOf(a, scene) < scene.faintestMag

\* C22 witness: the traversal is over; a moon of a moon is not in the list
\* although it is bright enough and both its parent and the planet are
\* listed, because the parent is too faint; a moon larger than a pixel is
\* not in the list because its asteroid is too faint; and the planet's own
\* moon is in the list.
C22_Witness ==
    /\ pc = "bodies"
    /\ toVisit = << >>
    /\ {1, 2} \subseteq ListedBodies
    /\ 9 \notin ListedBodies
    /\ EntriesOf(9, scene) # << >>
    /\ AppMagOf(1, scene) < scene.faintestMag
    /\ 8 \notin ListedBodies
    /\ BodyEntry(8, scene).discSizeInPixels > 100

(***************************************************************************)
(* Properties of StarRenderer::process                                     *)
(***************************************************************************)
\* the step is a call of process, for the star starIndex
ProcessStep == nProcessed' = nProcessed + 1

\* the three outcomes of a call of process
StarSkipped ==
    /\ renderList' = renderList
    /\ addedStars' = addedStars
    /\ starVertexBuffer' = starVertexBuffer

StarToRenderList ==
    /\ Len(renderList') = Len(renderList) + 1
    /\ SubSeq(renderList', 1, Len(renderList)) = renderList
    /\ renderList'[Len(renderList')].star = starIndex
    /\ renderList'[Len(renderList')].discSizeInPixels > 100
    /\ addedStars' = addedStars
    /\ starVertexBuffer' = starVertexBuffer

StarToVertexBuffer ==
    /\ renderList' = renderList
    /\ Len(addedStars') = Len(addedStars) + 1
    /\ SubSeq(addedStars', 1, Len(addedStars)) = addedStars
    /\ addedStars'[Len(addedStars')].star = starIndex
    /\ starVertexBuffer' # starVertexBuffer

\* C23: a call of process ends in exactly one of three outcomes: the star
\* is skipped, it is appended to the render list as an entry larger than a
\* pixel, or it is added to the star vertex buffer.  It is appended to the
\* render list only when it is less than a light year away and its disc
\* size is more than a pixel, and then it is not added to the vertex buffer.
C23_OneOutcomePerStar ==
    [][ProcessStep =>
            /\ StarSkipped \/ StarToRenderList \/ StarToVertexBuffer
            /\ ~ (StarSkipped /\ StarToRenderList)
            /\ ~ (StarSkipped /\ StarToVertexBuffer)
            /\ ~ (StarToRenderList /\ StarToVertexBuffer)
            /\ renderList' # renderList =>
                  /\ NearStar(starIndex)
                  /\ StarDiscSize(starIndex, scene) > 100
                  /\ addedStars' = addedStars ]_vars

\* the stars that have an entry in the render list
ListedStars ==
    { renderList[k].star : k \in 1..Len(renderList) } \ {NULL}

\* C23 witness: process was called for every star of the catalog; a near
\* star larger than a pixel is in the render list and not in the vertex
\* buffer, a near star no larger than a pixel is in the vertex buffer and
\* not in the render list, and some stars are in neither.
C23_Witness ==
    /\ pc = "stars"
    /\ nProcessed = Len(StarCatalog)
    /\ \E a \in ListedStars :
          /\ NearStar(a)
          /\ \A n \in 1..Len(addedStars) : addedStars[n].star # a
    /\ \E n \in 1..Len(addedStars) :
          /\ NearStar(addedStars[n].star)
          /\ addedStars[n].star \notin ListedStars
    /\ Cardinality(ListedStars) + Len(addedStars) < nProcessed

(***************************************************************************)
(* Properties of the passes of renderObject                                *)
(***************************************************************************)
\* the places of the call `name' in the passes of a renderObject call
PassesOf(call, name) ==
    { n \in 1..Len(call.passes) : call.passes[n] = name }

\* the places of the calls that draw the surface of the body
SurfacePasses(call) == 1..Len(call.calls)

\* the places of the passes drawn over the surface: atmosphere and shadows
OverlayPasses(call) ==
    PassesOf(call, "renderEllipsoidAtmosphere") \cup PassesOf(call, "renderEclipseShadows")

\* C24 as stated: a renderObject call for a body with rings draws the rings
\* exactly once: after the surface of the body when the observer is beyond
\* the inner radius of the rings, before the surface when the observer is
\* within it.
C24_NearRingsBeforeSurface ==
    \A c \in 1..Len(objectCalls) :
        LET call == objectCalls[c]
        IN  call.rings # NoRings =>
                /\ Cardinality(PassesOf(call, "renderRings")) = 1
                /\ \A r \in PassesOf(call, "renderRings") :
                   \A n \in SurfacePasses(call) :
                       IF call.distance > call.rings THEN n < r ELSE r < n

\* C24 amended: a renderObject call for a body with rings draws the rings
\* exactly once and always after the surface of the body: before the
\* atmosphere and the eclipse shadows when the observer is within the inner
\* radius of the rings or on it, after them when the observer is beyond it.
\* A body without rings gets no rings.
C24_RingsOnceAfterSurface ==
    \A c \in 1..Len(objectCalls) :
        LET call == objectCalls[c]
        IN  IF call.rings = NoRings
            THEN PassesOf(call, "renderRings") = {}
            ELSE /\ Cardinality(PassesOf(call, "renderRings")) = 1
                 /\ \A r \in PassesOf(call, "renderRings") :
                       /\ \A n \in SurfacePasses(call) : n < r
                       /\ \A n \in OverlayPasses(call) :
                             IF call.distance > call.rings THEN n < r ELSE r < n

\* C24 witness: a lit body with rings was drawn for an observer within the
\* inner radius of the rings, with its surface, an atmosphere and eclipse
\* shadows: the rings come second, between the surface and the atmosphere.
C24_Witness ==
    \E c \in 1..Len(objectCalls) :
        LET call == objectCalls[c]
        IN  /\ call.rings # NoRings
            /\ call.distance < call.rings
            /\ Len(call.calls) = 1
            /\ PassesOf(call, "renderRings") = {2}
            /\ PassesOf(call, "renderEllipsoidAtmosphere") = {3}
            /\ PassesOf(call, "renderEclipseShadows") = {4}

(***************************************************************************)
(* Properties of the ellipsoid computations                                *)
(***************************************************************************)
\* C25: whatever the oblateness of the body, 1 or next to 1 included, the
\* reciprocal semi-axis 1 / (1 - oblateness) of the atmosphere test and the
\* eye position divided by (1 - oblateness) * radius are computed without
\* a division by zero: every quotient is a finite number.
C25_NoDivisionByZero ==
    \A n \in 1..Len(ellipsoidMath) :
        /\ ellipsoidMath[n].divisor # 0
        /\ ellipsoidMath[n].quotient.kind = "finite"

(***************************************************************************)
(* Properties of the list of eclipse shadows of a body                     *)
(***************************************************************************)
\* the shadow records the testEclipse calls of `tests' that returned true
\* produce, in the order of the calls
RECURSIVE ShadowsOfTests(_)
ShadowsOfTests(tests) ==
    IF tests = << >> THEN << >>
    ELSE (IF Head(tests).result
          THEN << ShadowOf(positions, Head(tests).receiver, Head(tests).caster) >>
          ELSE << >>) \o ShadowsOfTests(Tail(tests))

\* the bodies a receiver is to be tested against: the satellites of a
\* planet; the parent planet and the other satellites of it for a moon
ExpectedCasters(body) ==
    IF System[body].primary = NULL
    THEN Satellites(body)
    ELSE {System[body].primary} \cup (Satellites(System[body].primary) \ {body})

\* C26: the list of eclipse shadows a body is drawn with holds the records
\* of the testEclipse calls made for that body as receiver in this
\* renderPlanet call and no others; a planet is tested against each of its
\* satellites, a moon against its parent and each of the other satellites,
\* each once, and no body against itself.
C26_ShadowsOfThisReceiverOnly ==
    /\ pc = "eclipse" =>
          /\ eclipseShadows = ShadowsOfTests(eclipseTests)
          /\ \A n \in 1..Len(eclipseTests) :
                /\ eclipseTests[n].receiver = receiver
                /\ eclipseTests[n].caster # receiver
    /\ \A c \in 1..Len(objectCalls) :
          LET call == objectCalls[c]
          IN  /\ call.shadows = ShadowsOfTests(eclipseTests)
              /\ \A n \in 1..Len(eclipseTests) :
                    /\ eclipseTests[n].receiver = call.body
                    /\ eclipseTests[n].caster # call.body
              /\ { eclipseTests[n].caster : n \in 1..Len(eclipseTests) }
                     = ExpectedCasters(call.body)
              /\ Len(eclipseTests) = Cardinality(ExpectedCasters(call.body))

\* C26 witness: a moon was drawn with a shadow on it after it was tested
\* against its planet and its four siblings, and some of the tests found
\* no shadow.
C26_Witness ==
    \E c \in 1..Len(objectCalls) :
        LET call == objectCalls[c]
        IN  /\ System[call.body].primary # NULL
            /\ Len(call.shadows) >= 1
            /\ Len(eclipseTests) = 5
            /\ \E n \in 1..Len(eclipseTests) : ~ eclipseTests[n].result

(***************************************************************************)
(* Properties of the depth ranges of the render loop                       *)
(***************************************************************************)
\* C27: throughout the render loop the bucket index given to glDepthRange
\* is within 0 .. nDepthBuckets - 1, so every depth range set lies within
\* [0, 1], whatever the render list: entries no larger than a pixel and
\* coalesced buckets included.
C27_DepthRangeWithinUnit ==
    /\ \A k \in 1..Len(depthRanges) :
          /\ depthRanges[k].lo >= 0
          /\ depthRanges[k].hi <= depthRanges[k].den
          /\ depthRanges[k].den \in {1, nDepthBuckets}
    /\ pc = "draw" => depthBucket \in 0..(nDepthBuckets - 1)
    /\ \A k \in 1..Len(drawn) : drawn[k].bucket \in 0..(nDepthBuckets - 1)

\* C27 witness: the render loop has drawn a list with an entry no larger
\* than a pixel and two meshes of one coalesced bucket; the first and the
\* last bucket were both bound.
C27_Witness ==
    /\ pc = "draw"
    /\ i = 0
    /\ nDepthBuckets >= 2
    /\ \E k \in 1..Len(renderList) : k \notin Meshes
    /\ \E j, k \in Meshes : j # k /\ renderList[j].depthBucket = renderList[k].depthBucket
    /\ \E k \in 1..Len(depthRanges) :
          depthRanges[k].lo = 0 /\ depthRanges[k].den = nDepthBuckets
    /\ \E k \in 1..Len(depthRanges) :
          depthRanges[k].hi = nDepthBuckets /\ depthRanges[k].den = nDepthBuckets


(***************************************************************************)
(* C28: after any sequence of splitView, deleteView, singleView, TAB and   *)
(* pickView calls the view list is non-empty and activeView is a valid     *)
(* index into it: 0 <= activeView < views.size().                          *)
(* pickView leaves activeView = views.size() when the point is outside     *)
(* every view.                                                             *)
(***************************************************************************)
C28_ActiveViewValid ==
    /\ Len(views) > 0
    /\ 0 <= activeView
    /\ activeView < Len(views)


(***************************************************************************)
(* C29: after any sequence of addToHistory, back, forward and              *)
(* setHistoryCurrent calls either the history is empty and historyCurrent  *)
(* is 0, or historyCurrent < history.size(); addToHistory discards every   *)
(* entry after the current position and leaves historyCurrent at the newly *)
(* appended last entry.                                                    *)
(***************************************************************************)
HistoryIndexValid ==
    \/ history = << >> /\ historyCurrent = 0
    \/ historyCurrent < Len(history)

\* the entries up to the current position, the current one included
KeptEntries ==
    IF history = << >> THEN << >> ELSE SubSeq(history, 1, historyCurrent + 1)

C29_HistoryValid ==
    [][ /\ HistoryIndexValid'
        /\ AddToHistory =>
              /\ Len(history') = Len(KeptEntries) + 1
              /\ SubSeq(history', 1, Len(KeptEntries)) = KeptEntries
              /\ historyCurrent' = Len(history') - 1 ]_vars

\* an addToHistory made in the middle of the history has discarded the
\* entries after the position
C29_Witness ==
    /\ historyPopped > 0
    /\ Len(history) >= 2
    /\ historyCurrent = Len(history) - 1


(***************************************************************************)
(* C30: for every atmosphere pixel thickness >= 0 and every observer       *)
(* distance renderEllipsoidAtmosphere uses a slice count within            *)
(* [MinSkySlices, MaxSkySlices] and at most 18 rings (<= MaxSkyRings), so  *)
(* all writes to skyContour, skyVertices and skyIndices stay inside the    *)
(* arrays allocated in the Renderer constructor.                           *)
(***************************************************************************)
C30_SkyWritesInsideArrays ==
    skyCalls.drawn =>
        /\ MinSkySlices <= skyCalls.nSlices
        /\ skyCalls.nSlices <= MaxSkySlices
        /\ skyCalls.nRings <= 18
        /\ 18 <= MaxSkyRings
        /\ skyCalls.contour <= SkyContourSize
        /\ skyCalls.vertices <= SkyVerticesSize
        /\ skyCalls.indices <= SkyIndicesSize

\* the largest tesselation: eighteen rings of 180 slices, within the
\* atmosphere and far enough from the surface
C30_Witness ==
    /\ skyCalls.drawn
    /\ skyCalls.within
    /\ skyCalls.nRings = 18
    /\ skyCalls.nSlices = MaxSkySlices
    /\ skyCalls.vertices = 19 * 180

====
